---- MODULE Spec2Model ----
(***************************************************************************)
(* The configurable rule-based risk-scoring engine of pygroupf:            *)
(* DataAnalyzer (src/src/pygroupf/analysis.py) with the rule set, tiers    *)
(* and pipeline of src/run.py, the DataProcessor variants that feed it     *)
(* (src/src/pygroupf/data_processing.py and its copies) and the hard-coded *)
(* analyzer of src/src/german_credit_analysis/analysis.py.                 *)
(*                                                                         *)
(* Python values are tagged records, Python exceptions are the `exc`       *)
(* field of a call's result, a dict is a function on its key set, an       *)
(* insertion-ordered dict of rules is a sequence of (key, rule) entries,   *)
(* a str used as a column name is the sequence of its characters, and a    *)
(* DataFrame is its column list, its index and its rows.                   *)
(***************************************************************************)
EXTENDS Integers, Sequences, FiniteSets, TLC

VARIABLES
    args,           \* the inputs: the arguments DataAnalyzer(...) was constructed
                    \* with, and the arguments its scoring calls are made with
    data,           \* self.data: the caller's table, mutated in place
    scoring_rules,  \* self.scoring_rules
    risk_levels,    \* self.risk_levels: the tiers, sorted at construction
    call,           \* the last call made on the analyzer, with its arguments
    ret,            \* what that call returned or raised
    report,         \* the table the last successful generate_risk_report returned
    csv,            \* the file the last successful save_risk_report wrote
    processor,      \* the DataProcessor: which variant it is, and its self.data
    files           \* the file system: the raw CSV file, the data directory
                    \* and the processed CSV file

vars ==
    <<args, data, scoring_rules, risk_levels, call, ret, report, csv,
      processor, files>>

(***************************************************************************)
(* Bounds of the model.                                                    *)
(***************************************************************************)
MaxEntries == 2     \* entries of a generated range rule
MaxTiers == 3       \* tiers of a generated tier list
MaxFields == 2      \* fields of a generated rule configuration
MaxRows == 2        \* rows of a table
MaxRawRows == 3     \* rows of a raw file a DataProcessor loads

(***************************************************************************)
(* Python values: int, str and the missing value (float nan).              *)
(***************************************************************************)
IntV(n) == [t |-> "int", n |-> n, s |-> ""]
StrV(s) == [t |-> "str", n |-> 0, s |-> s]
NaN == [t |-> "nan", n |-> 0, s |-> ""]
\* A float that is not a whole number: n / 2 for an odd n (a median of an
\* even number of ints).
HalfV(n) == [t |-> "half", n |-> n, s |-> ""]

\* The result of a call: exc is "none" when it returned, else the exception
\* raised; val is the int returned, level the str returned, truth the bool.
Return(v) == [exc |-> "none", val |-> v, level |-> "", truth |-> FALSE]
ReturnLevel(l) == [exc |-> "none", val |-> 0, level |-> l, truth |-> FALSE]
ReturnBool(b) == [exc |-> "none", val |-> 0, level |-> "", truth |-> b]
Raise(e) == [exc |-> e, val |-> 0, level |-> "", truth |-> FALSE]
NoResult == [exc |-> "nocall", val |-> 0, level |-> "", truth |-> FALSE]

\* x < y, x > y, ... between a value and an int literal: a str raises
\* TypeError, nan compares False with everything.
CmpRaises(value) == value.t = "str"
Lt(value, k) ==
    (value.t = "int" /\ value.n < k) \/ (value.t = "half" /\ value.n < 2 * k)
Le(value, k) ==
    (value.t = "int" /\ value.n <= k) \/ (value.t = "half" /\ value.n <= 2 * k)
Gt(value, k) ==
    (value.t = "int" /\ value.n > k) \/ (value.t = "half" /\ value.n > 2 * k)
Ge(value, k) ==
    (value.t = "int" /\ value.n >= k) \/ (value.t = "half" /\ value.n >= 2 * k)

\* A dict keyed by values; dict.get(key, default).
EmptyDict == [k \in {} |-> 0]
DictGet(d, key, default) == IF key \in DOMAIN d THEN d[key] ELSE default

(***************************************************************************)
(* Field names.  str.lower() and str.replace(" ", "_") act on characters.  *)
(***************************************************************************)
Upper == <<"A","B","C","D","E","F","G","H","I","J","K","L","M",
           "N","O","P","Q","R","S","T","U","V","W","X","Y","Z">>
LowerOf == <<"a","b","c","d","e","f","g","h","i","j","k","l","m",
             "n","o","p","q","r","s","t","u","v","w","x","y","z">>
ToLower == [c \in {Upper[i] : i \in 1..26} |->
               LowerOf[CHOOSE i \in 1..26 : Upper[i] = c]]

lower(c) == IF c \in DOMAIN ToLower THEN ToLower[c] ELSE c

\* field_name.lower().replace(" ", "_")
NormalizeChar(c) == LET l == lower(c) IN IF l = " " THEN "_" ELSE l
normalized_name(field_name) ==
    [i \in 1..Len(field_name) |-> NormalizeChar(field_name[i])]

\* The keys of the rule configuration of run.py, and the reserved columns.
Age == <<"A","g","e">>
Sex == <<"S","e","x">>
Job == <<"J","o","b">>
Housing == <<"H","o","u","s","i","n","g">>
SavingAccounts == <<"S","a","v","i","n","g"," ","a","c","c","o","u","n","t","s">>
CheckingAccount == <<"C","h","e","c","k","i","n","g"," ","a","c","c","o","u","n","t">>
CreditAmount == <<"C","r","e","d","i","t"," ","a","m","o","u","n","t">>
Duration == <<"D","u","r","a","t","i","o","n">>
Purpose == <<"P","u","r","p","o","s","e">>

customer_id == <<"c","u","s","t","o","m","e","r","_","i","d">>
risk_score == <<"r","i","s","k","_","s","c","o","r","e">>
risk_level == <<"r","i","s","k","_","l","e","v","e","l">>

(***************************************************************************)
(* The callables stored in a rule configuration (run.py).                  *)
(***************************************************************************)
\* rule['condition'](value) for the three Age lambdas.
Condition(name, value) ==
    IF CmpRaises(value) THEN Raise("TypeError")
    ELSE CASE name = "age_15" ->
                ReturnBool(Lt(value, 20) \/ Gt(value, 70))
           [] name = "age_10" ->
                ReturnBool((Ge(value, 20) /\ Lt(value, 25))
                           \/ (Gt(value, 60) /\ Le(value, 70)))
           [] name = "age_5" ->
                ReturnBool((Ge(value, 25) /\ Lt(value, 30))
                           \/ (Gt(value, 50) /\ Le(value, 60)))

\* rules['default'](value) for the Saving accounts and Checking account lambdas.
Default(name, value) ==
    IF CmpRaises(value) THEN Raise("TypeError")
    ELSE CASE name = "saving" ->
                IF Gt(value, 0) THEN Return((4 - value.n) * 3) ELSE Return(10)
           [] name = "checking" ->
                IF Gt(value, 0) THEN Return((3 - value.n) * 4) ELSE Return(10)

\* A default function that indexes a dict with the value,
\* lambda x: {1: 7}[x]: a value that is not a key raises KeyError.
Lookup(value) == IF value = IntV(1) THEN Return(7) ELSE Raise("KeyError")

(***************************************************************************)
(* Rule specifications.  kind is what isinstance() sees: "list", "dict" or *)
(* "other"; a dict either has the key 'default' or is a value mapping.     *)
(***************************************************************************)
NoEntries == << >>

ListRule(entries) ==
    [kind |-> "list", entries |-> entries, hasDefault |-> FALSE,
     default |-> "", hasSpecific |-> FALSE, specific |-> EmptyDict,
     mapping |-> EmptyDict]
DefaultRule(f, specific) ==
    [kind |-> "dict", entries |-> NoEntries, hasDefault |-> TRUE,
     default |-> f, hasSpecific |-> TRUE, specific |-> specific,
     mapping |-> EmptyDict]
DefaultOnlyRule(f) ==
    [kind |-> "dict", entries |-> NoEntries, hasDefault |-> TRUE,
     default |-> f, hasSpecific |-> FALSE, specific |-> EmptyDict,
     mapping |-> EmptyDict]
MapRule(m) ==
    [kind |-> "dict", entries |-> NoEntries, hasDefault |-> FALSE,
     default |-> "", hasSpecific |-> FALSE, specific |-> EmptyDict,
     mapping |-> m]
OtherRule ==
    [kind |-> "other", entries |-> NoEntries, hasDefault |-> FALSE,
     default |-> "", hasSpecific |-> FALSE, specific |-> EmptyDict,
     mapping |-> EmptyDict]

\* One entry of a range rule: {'condition': f, 'score': n},
\* {'threshold': k, 'score': n}, or a dict with both or neither key.
Entry(hasCond, cond, hasThr, thr, score) ==
    [hasCond |-> hasCond, cond |-> cond, hasThr |-> hasThr, thr |-> thr,
     score |-> score]
CondEntry(cond, score) == Entry(TRUE, cond, FALSE, 0, score)
ThrEntry(thr, score) == Entry(FALSE, "", TRUE, thr, score)

\* self.scoring_rules.get(field_name, {})
RulesGet(rules, field_name) ==
    IF \E i \in 1..Len(rules) : rules[i].key = field_name
    THEN rules[CHOOSE i \in 1..Len(rules) : rules[i].key = field_name].rule
    ELSE MapRule(EmptyDict)

(***************************************************************************)
(* DataAnalyzer.calculate_field_score                                      *)
(***************************************************************************)
\* A loop that keeps going after a match: a later matching entry wins.
RECURSIVE RangeScoreLastMatch(_, _, _)
RangeScoreLastMatch(entries, i, value) ==
    IF i > Len(entries) THEN Return(0)
    ELSE LET rule == entries[i]
             later == RangeScoreLastMatch(entries, i + 1, value)
             cond == IF rule.hasCond THEN Condition(rule.cond, value)
                     ELSE ReturnBool(FALSE)
         IN  IF cond.exc # "none" THEN Raise(cond.exc)
             ELSE IF rule.hasThr /\ CmpRaises(value) THEN Raise("TypeError")
             ELSE IF later.exc # "none" \/ later.val # 0 THEN later
             ELSE IF cond.truth \/ (rule.hasThr /\ Gt(value, rule.thr))
                  THEN Return(rule.score)
             ELSE later

\* The loop with value >= threshold for value > threshold.
RECURSIVE RangeScoreAtLeast(_, _, _)
RangeScoreAtLeast(entries, i, value) ==
    IF i > Len(entries) THEN Return(0)
    ELSE LET rule == entries[i]
             cond == IF rule.hasCond THEN Condition(rule.cond, value)
                     ELSE ReturnBool(FALSE)
         IN  IF cond.exc # "none" THEN Raise(cond.exc)
             ELSE IF cond.truth THEN Return(rule.score)
             ELSE IF rule.hasThr /\ CmpRaises(value) THEN Raise("TypeError")
             ELSE IF rule.hasThr /\ Ge(value, rule.thr) THEN Return(rule.score)
             ELSE RangeScoreAtLeast(entries, i + 1, value)

\* The loop over a range rule's entries, from entry i on.
RECURSIVE RangeScore(_, _, _)
RangeScore(entries, i, value) ==
    IF i > Len(entries) THEN Return(0)
    ELSE LET rule == entries[i]
             cond == IF rule.hasCond THEN Condition(rule.cond, value)
                     ELSE ReturnBool(FALSE)
         IN  IF cond.exc # "none" THEN Raise(cond.exc)
             ELSE IF cond.truth THEN Return(rule.score)
             ELSE IF rule.hasThr /\ CmpRaises(value) THEN Raise("TypeError")
             ELSE IF rule.hasThr /\ Gt(value, rule.thr) THEN Return(rule.score)
             ELSE RangeScore(entries, i + 1, value)

\* rules['default'](value)
CallDefault(rules, value) ==
    IF rules.default = "lookup" THEN Lookup(value)
    ELSE Default(rules.default, value)

\* The default function tried first, `specific` only when it fails.
DefaultScoreDefaultFirst(rules, value) ==
    LET specific == IF rules.hasSpecific THEN rules.specific ELSE EmptyDict
        computed == CallDefault(rules, value)
    IN  IF computed.exc = "none" THEN computed
        ELSE IF value \in DOMAIN specific THEN Return(specific[value])
        ELSE IF computed.exc \in {"TypeError", "KeyError"}
             THEN Return(DictGet(specific, IntV(0), 0))
             ELSE computed

\* The default function called outside the try block: its failure propagates.
DefaultScoreUncaught(rules, value) ==
    LET specific == IF rules.hasSpecific THEN rules.specific ELSE EmptyDict
    IN  IF value \in DOMAIN specific THEN Return(specific[value])
        ELSE CallDefault(rules, value)

\* The branch for a dict with a 'default' key.
DefaultScore(rules, value) ==
    LET specific == IF rules.hasSpecific THEN rules.specific ELSE EmptyDict
        computed == CallDefault(rules, value)
    IN  IF value \in DOMAIN specific THEN Return(specific[value])
        ELSE IF computed.exc \in {"TypeError", "KeyError"}
             THEN Return(DictGet(specific, IntV(0), 0))
             ELSE computed

\* The dispatch with the two dict branches in the other order: a rule with a
\* 'default' key is read as a value mapping.
calculate_field_score_mapping_first(rules_cfg, field_name, value) ==
    LET rules == RulesGet(rules_cfg, field_name)
    IN  IF rules.kind = "list" THEN RangeScore(rules.entries, 1, value)
        ELSE IF rules.kind = "dict"
             THEN Return(DictGet(rules.mapping, value, 0))
        ELSE Return(0)

\* The mapping indexed, rules[value], for rules.get(value, 0).
MappingScoreIndexed(rules, value) ==
    IF value \in DOMAIN rules.mapping THEN Return(rules.mapping[value])
    ELSE Raise("KeyError")

\* The branch for a dict without a 'default' key: rules.get(value, 0).
MappingScore(rules, value) == Return(DictGet(rules.mapping, value, 0))

calculate_field_score(rules_cfg, field_name, value) ==
    LET rules == RulesGet(rules_cfg, field_name)
    IN  IF rules.kind = "list" THEN RangeScore(rules.entries, 1, value)
        ELSE IF rules.kind = "dict" /\ rules.hasDefault
             THEN DefaultScore(rules, value)
        ELSE IF rules.kind = "dict" THEN MappingScore(rules, value)
        ELSE Return(0)

(***************************************************************************)
(* DataAnalyzer.calculate_risk_score                                       *)
(***************************************************************************)
\* The clamp without its ceiling.
ClampNoCeiling(score) == IF score > 0 THEN score ELSE 0

\* min(max(score, 0), 100)
Clamp(score) ==
    LET lower_bounded == IF score > 0 THEN score ELSE 0
    IN  IF lower_bounded < 100 THEN lower_bounded ELSE 100

\* The loop with the rule looked up under the normalized name, not the key.
RECURSIVE SumFieldsNormalizedKey(_, _, _, _)
SumFieldsNormalizedKey(rules_cfg, row, i, score) ==
    IF i > Len(rules_cfg) THEN Return(score)
    ELSE LET field_name == rules_cfg[i].key
             column == normalized_name(field_name)
         IN  IF column \notin DOMAIN row THEN Raise("KeyError")
             ELSE LET field ==
                          calculate_field_score(rules_cfg, column, row[column])
                  IN  IF field.exc # "none" THEN field
                      ELSE SumFieldsNormalizedKey(rules_cfg, row, i + 1,
                                                  score + field.val)

\* The loop with `score =` for `score +=`: the last field's score wins.
RECURSIVE SumFieldsAssign(_, _, _, _)
SumFieldsAssign(rules_cfg, row, i, score) ==
    IF i > Len(rules_cfg) THEN Return(score)
    ELSE LET field_name == rules_cfg[i].key
             column == normalized_name(field_name)
         IN  IF column \notin DOMAIN row THEN Raise("KeyError")
             ELSE LET field ==
                          calculate_field_score(rules_cfg, field_name, row[column])
                  IN  IF field.exc # "none" THEN field
                      ELSE SumFieldsAssign(rules_cfg, row, i + 1, field.val)

\* The loop over the configured fields, from field i on, with the running sum.
RECURSIVE SumFields(_, _, _, _)
SumFields(rules_cfg, row, i, score) ==
    IF i > Len(rules_cfg) THEN Return(score)
    ELSE LET field_name == rules_cfg[i].key
             column == normalized_name(field_name)
         IN  IF column \notin DOMAIN row THEN Raise("KeyError")
             ELSE LET field ==
                          calculate_field_score(rules_cfg, field_name, row[column])
                  IN  IF field.exc # "none" THEN field
                      ELSE SumFields(rules_cfg, row, i + 1, score + field.val)

calculate_risk_score(rules_cfg, row) ==
    IF DOMAIN row = {} THEN Raise("AssertionError")
    ELSE LET total == SumFields(rules_cfg, row, 1, 0)
         IN  IF total.exc # "none" THEN total ELSE Return(Clamp(total.val))

(***************************************************************************)
(* DataAnalyzer.__init__ and determine_risk_level                          *)
(***************************************************************************)
\* Where a tier goes in a list already sorted descending: after every tier
\* whose threshold is >= its own (the sort is stable).
RECURSIVE InsertTier(_, _)
InsertTier(sorted, tier) ==
    IF sorted = << >> THEN <<tier>>
    ELSE IF Head(sorted).threshold >= tier.threshold
         THEN <<Head(sorted)>> \o InsertTier(Tail(sorted), tier)
         ELSE <<tier>> \o sorted

\* The tier list kept in the order it was supplied in.
AsSupplied(levels) == levels

\* sorted(risk_levels, key=lambda x: x[0], reverse=True)
RECURSIVE SortedDescending(_)
SortedDescending(levels) ==
    IF levels = << >> THEN << >>
    ELSE InsertTier(SortedDescending(SubSeq(levels, 1, Len(levels) - 1)),
                    levels[Len(levels)])

\* The comparison of the tier loop, and the same with > for >=.
ReachesStrict(score, threshold) == score > threshold
Reaches(score, threshold) == score >= threshold

\* The loop over the tiers, from tier i on: the position of the tier it
\* returns from, 0 when it falls through.
RECURSIVE FirstTier(_, _, _)
FirstTier(levels, i, score) ==
    IF i > Len(levels) THEN 0
    ELSE IF Reaches(score, levels[i].threshold) THEN i
    ELSE FirstTier(levels, i + 1, score)

\* The tier loop without the assertion on the score.
determine_risk_level_unchecked(levels, score) ==
    LET tier == FirstTier(levels, 1, score)
    IN  IF tier = 0 THEN ReturnLevel("Unknown")
        ELSE ReturnLevel(levels[tier].level)

\* The tier loop returning from the last tier that matches.
determine_risk_level_last(levels, score) ==
    LET matching == {i \in 1..Len(levels) : Reaches(score, levels[i].threshold)}
    IN  IF ~(0 <= score /\ score <= 100) THEN Raise("AssertionError")
        ELSE IF matching = {} THEN ReturnLevel("Unknown")
        ELSE ReturnLevel(levels[CHOOSE i \in matching :
                                   \A j \in matching : j <= i].level)

determine_risk_level(levels, score) ==
    LET tier == FirstTier(levels, 1, score)
    IN  IF ~(0 <= score /\ score <= 100) THEN Raise("AssertionError")
        ELSE IF tier = 0 THEN ReturnLevel("Unknown")
        ELSE ReturnLevel(levels[tier].level)

(***************************************************************************)
(* Tables (pandas DataFrame) and DataAnalyzer.generate_risk_report         *)
(***************************************************************************)
Range(seq) == {seq[i] : i \in 1..Len(seq)}

NoTable == [columns |-> << >>, index |-> << >>, rows |-> << >>]
NoFile == [header |-> << >>, lines |-> << >>]

\* DataFrame.empty: no rows or no columns.
IsEmpty(df) == Len(df.rows) = 0 \/ Len(df.columns) = 0

\* df[col] = values: an existing column is overwritten where it stands, a new
\* one is appended as the last column.
SetColumn(df, col, values) ==
    [columns |-> IF col \in Range(df.columns) THEN df.columns
                 ELSE Append(df.columns, col),
     index |-> df.index,
     rows |-> [i \in 1..Len(df.rows) |-> (col :> values[i]) @@ df.rows[i]]]

\* df[cols]: a new table with the columns in the order of cols.
SelectColumns(df, cols) ==
    [columns |-> cols,
     index |-> df.index,
     rows |-> [i \in 1..Len(df.rows) |-> [c \in Range(cols) |-> df.rows[i][c]]]]

\* The first exception a column-wise apply meets, going down the rows.
FirstRaise(results) ==
    IF \E i \in 1..Len(results) : results[i].exc # "none"
    THEN results[CHOOSE i \in 1..Len(results) :
                    /\ results[i].exc # "none"
                    /\ \A j \in 1..(i - 1) : results[j].exc = "none"].exc
    ELSE "none"

\* A statement `name = value` followed by the rest of the body: the value is
\* computed once and the rest reads it.
Bind(value, Rest(_)) == CHOOSE result \in {Rest(name) : name \in {value}} : TRUE

\* report_df.apply(self.calculate_risk_score, axis=1): the results of rows
\* 1..i, in row order.
RECURSIVE ApplyRiskScore(_, _, _)
ApplyRiskScore(rules_cfg, rows, i) ==
    IF i = 0 THEN << >>
    ELSE Append(ApplyRiskScore(rules_cfg, rows, i - 1),
                calculate_risk_score(rules_cfg, rows[i]))

\* report_df['risk_score'].apply(self.determine_risk_level): the results of
\* scores 1..i.
RECURSIVE ApplyRiskLevel(_, _, _)
ApplyRiskLevel(levels, scores, i) ==
    IF i = 0 THEN << >>
    ELSE Append(ApplyRiskLevel(levels, scores, i - 1),
                determine_risk_level(levels, scores[i].val))

\* report_df.index + 1, for index positions 1..i.
RECURSIVE IndexPlusOne(_, _)
IndexPlusOne(index, i) ==
    IF i = 0 THEN << >>
    ELSE Append(IndexPlusOne(index, i - 1), IntV(index[i] + 1))

\* The report made on a copy of the table: a call that fails leaves the
\* caller's table as it was.
generate_risk_report_on_copy(df, rules_cfg, levels) ==
    IF IsEmpty(df)
    THEN [exc |-> "AssertionError", data |-> df, report |-> NoTable]
    ELSE
    Bind(SetColumn(df, customer_id, IndexPlusOne(df.index, Len(df.index))),
         LAMBDA with_id :
    Bind(ApplyRiskScore(rules_cfg, with_id.rows, Len(with_id.rows)),
         LAMBDA scores :
    IF FirstRaise(scores) # "none"
    THEN [exc |-> FirstRaise(scores), data |-> df, report |-> NoTable]
    ELSE
    Bind(SetColumn(with_id, risk_score,
                   [i \in 1..Len(scores) |-> IntV(scores[i].val)]),
         LAMBDA with_score :
    Bind(ApplyRiskLevel(levels, scores, Len(scores)),
         LAMBDA labels :
    IF FirstRaise(labels) # "none"
    THEN [exc |-> FirstRaise(labels), data |-> df, report |-> NoTable]
    ELSE
    Bind(SetColumn(with_score, risk_level,
                   [i \in 1..Len(labels) |-> StrV(labels[i].level)]),
         LAMBDA with_level :
    [exc |-> "none", data |-> with_level,
     report |-> SelectColumns(with_level,
                    <<customer_id>>
                    \o SelectSeq(with_level.columns,
                                 LAMBDA col : col # customer_id))])))))

\* The body of generate_risk_report on self.data = df: the exception raised
\* (or "none"), the table as the call leaves it, and the table returned.
generate_risk_report(df, rules_cfg, levels) ==
    IF IsEmpty(df)
    THEN [exc |-> "AssertionError", data |-> df, report |-> NoTable]
    ELSE
    Bind(SetColumn(df, customer_id, IndexPlusOne(df.index, Len(df.index))),
         LAMBDA with_id :
    Bind(ApplyRiskScore(rules_cfg, with_id.rows, Len(with_id.rows)),
         LAMBDA scores :
    IF FirstRaise(scores) # "none"
    THEN [exc |-> FirstRaise(scores), data |-> with_id, report |-> NoTable]
    ELSE
    Bind(SetColumn(with_id, risk_score,
                   [i \in 1..Len(scores) |-> IntV(scores[i].val)]),
         LAMBDA with_score :
    Bind(ApplyRiskLevel(levels, scores, Len(scores)),
         LAMBDA labels :
    IF FirstRaise(labels) # "none"
    THEN [exc |-> FirstRaise(labels), data |-> with_score, report |-> NoTable]
    ELSE
    Bind(SetColumn(with_score, risk_level,
                   [i \in 1..Len(labels) |-> StrV(labels[i].level)]),
         LAMBDA with_level :
    [exc |-> "none", data |-> with_level,
     report |-> SelectColumns(with_level,
                    <<customer_id>>
                    \o SelectSeq(with_level.columns,
                                 LAMBDA col : col # customer_id))])))))

\* report_df.to_csv(output_path, index=False): the header and one line per
\* row, the cells in column order, the index left out.
to_csv(df) ==
    [header |-> df.columns,
     lines |-> [i \in 1..Len(df.rows) |->
                  [j \in 1..Len(df.columns) |-> df.rows[i][df.columns[j]]]]]

\* output_path.endswith('.csv')
DotCsv == <<".", "c", "s", "v">>
endswith(path, suffix) ==
    /\ Len(path) >= Len(suffix)
    /\ SubSeq(path, Len(path) - Len(suffix) + 1, Len(path)) = suffix

\* The body of save_risk_report: the exception raised, the table as the call
\* leaves it, and the file written (NoFile when none is).
save_risk_report(df, rules_cfg, levels, output_path) ==
    IF ~endswith(output_path, DotCsv)
    THEN [exc |-> "AssertionError", data |-> df, file |-> NoFile]
    ELSE
    Bind(generate_risk_report(df, rules_cfg, levels), LAMBDA made :
    IF made.exc # "none"
    THEN [exc |-> made.exc, data |-> made.data, file |-> NoFile]
    ELSE [exc |-> "none", data |-> made.data, file |-> to_csv(made.report)])

(***************************************************************************)
(* The calls on an analyzer.                                               *)
(***************************************************************************)
NoRow == << >>
NoName == << >>
Call(op, field, value, row, score, path) ==
    [op |-> op, field |-> field, value |-> value, row |-> row,
     score |-> score, path |-> path]
NoCall == Call("none", NoName, NaN, NoRow, 0, NoName)

\* The inputs of a run.
Args(table, rules_cfg, levels, field, value, row, score) ==
    [data |-> table, scoring_rules |-> rules_cfg, risk_levels |-> levels,
     field |-> field, value |-> value, row |-> row, score |-> score]

\* No DataProcessor is involved: the table comes from the caller.
NoData == [kind |-> "None", path |-> << >>, df |-> NoTable]
NoProcessor == [variant |-> "none", file_path |-> << >>, data |-> NoData]
NoFiles == [raw |-> [exists |-> FALSE, table |-> NoTable],
            data_dir |-> FALSE, processed |-> NoFile]

\* DataAnalyzer(...): the state __init__ leaves.  With an empty tier list the
\* assertion fails, no analyzer exists and the caller's table is as it was.
Constructed(a) ==
    /\ args = a
    /\ processor = NoProcessor
    /\ files = NoFiles
    /\ data = a.data
    /\ report = NoTable
    /\ csv = NoFile
    /\ IF Len(a.risk_levels) > 0
       THEN /\ scoring_rules = a.scoring_rules
            /\ risk_levels = SortedDescending(a.risk_levels)
            /\ call = NoCall
            /\ ret = NoResult
       ELSE /\ scoring_rules = << >>
            /\ risk_levels = << >>
            /\ call = Call("__init__", NoName, NaN, NoRow, 0, NoName)
            /\ ret = Raise("AssertionError")

\* There is an analyzer to call: its construction did not fail.
Exists == ~(call.op = "__init__" /\ ret.exc # "none")

CalculateFieldScore(field_name, value) ==
    /\ Exists
    /\ call' = Call("calculate_field_score", field_name, value, NoRow, 0, NoName)
    /\ ret' = calculate_field_score(scoring_rules, field_name, value)
    /\ UNCHANGED <<args, data, scoring_rules, risk_levels, report, csv>>
    /\ UNCHANGED <<processor, files>>

CalculateRiskScore(row) ==
    /\ Exists
    /\ call' = Call("calculate_risk_score", NoName, NaN, row, 0, NoName)
    /\ ret' = calculate_risk_score(scoring_rules, row)
    /\ UNCHANGED <<args, data, scoring_rules, risk_levels, report, csv>>
    /\ UNCHANGED <<processor, files>>

DetermineRiskLevel(score) ==
    /\ Exists
    /\ call' = Call("determine_risk_level", NoName, NaN, NoRow, score, NoName)
    /\ ret' = determine_risk_level(risk_levels, score)
    /\ UNCHANGED <<args, data, scoring_rules, risk_levels, report, csv>>
    /\ UNCHANGED <<processor, files>>

GenerateRiskReport ==
    \E made \in {generate_risk_report(data, scoring_rules, risk_levels)} :
        /\ Exists
        /\ call' = Call("generate_risk_report", NoName, NaN, NoRow, 0, NoName)
        /\ ret' = IF made.exc = "none" THEN Return(0) ELSE Raise(made.exc)
        /\ data' = made.data
        /\ report' = IF made.exc = "none" THEN made.report ELSE report
        /\ UNCHANGED <<args, scoring_rules, risk_levels, csv, processor, files>>

SaveRiskReport(output_path) ==
    \E saved \in {save_risk_report(data, scoring_rules, risk_levels, output_path)} :
        /\ Exists
        /\ call' = Call("save_risk_report", NoName, NaN, NoRow, 0, output_path)
        /\ ret' = IF saved.exc = "none" THEN Return(0) ELSE Raise(saved.exc)
        /\ data' = saved.data
        /\ csv' = IF saved.exc = "none" THEN saved.file ELSE csv
        /\ UNCHANGED <<args, scoring_rules, risk_levels, report, processor, files>>

(***************************************************************************)
(* The rule set and tiers of run.py.                                       *)
(***************************************************************************)
Tier(threshold, level) == [threshold |-> threshold, level |-> level]
Rule(key, rule) == [key |-> key, rule |-> rule]

RefRules ==
    << Rule(Age, ListRule(<< CondEntry("age_15", 15), CondEntry("age_10", 10),
                             CondEntry("age_5", 5) >>)),
       Rule(Sex, MapRule(StrV("male") :> 2 @@ StrV("female") :> 0
                         @@ StrV("unknown") :> 1)),
       Rule(Job, MapRule(IntV(0) :> 15 @@ IntV(1) :> 10 @@ IntV(2) :> 5
                         @@ IntV(3) :> 1)),
       Rule(Housing, MapRule(IntV(0) :> 15 @@ IntV(1) :> 10 @@ IntV(2) :> 5)),
       Rule(SavingAccounts, DefaultRule("saving", IntV(0) :> 10)),
       Rule(CheckingAccount, DefaultRule("checking", IntV(0) :> 10)),
       Rule(CreditAmount, ListRule(<< ThrEntry(8000, 15), ThrEntry(5000, 10),
                                      ThrEntry(2000, 5) >>)),
       Rule(Duration, ListRule(<< ThrEntry(36, 15), ThrEntry(24, 10),
                                  ThrEntry(12, 5) >>)),
       Rule(Purpose, MapRule(StrV("business") :> 10 @@ StrV("education") :> 10
                             @@ StrV("unknown") :> 8 @@ StrV("car") :> 5
                             @@ StrV("furniture/equipment") :> 5
                             @@ StrV("radio/TV") :> 3
                             @@ StrV("domestic appliances") :> 3
                             @@ StrV("repairs") :> 3
                             @@ StrV("vacation/others") :> 3)) >>

RefLevels ==
    << Tier(70, "High risk"), Tier(50, "Medium-high risk"),
       Tier(30, "Medium-low risk"), Tier(0, "Low risk") >>

(***************************************************************************)
(* Inputs: the rule specifications, values and field names a single field  *)
(* is scored with.                                                         *)
(***************************************************************************)
SeqsUpTo(S, n) == UNION {[1..k -> S] : k \in 0..n}
Dicts(K, V) == UNION {[D -> V] : D \in SUBSET K}

EntrySet ==
    {Entry(c # "", c, ht, IF ht THEN t ELSE 0, sc) :
        c \in {"", "age_15", "age_10"}, ht \in BOOLEAN, t \in {2, 21},
        sc \in {5, 10}}

RuleSpecs ==
    {ListRule(es) : es \in SeqsUpTo(EntrySet, MaxEntries)}
    \cup {DefaultRule(f, sp) : f \in {"saving", "checking", "lookup"},
                               sp \in Dicts({IntV(0), IntV(1), StrV("male")}, {7, 10})}
    \cup {DefaultOnlyRule(f) : f \in {"saving", "checking", "lookup"}}
    \cup {MapRule(m) : m \in Dicts({IntV(1), StrV("male")}, {2, 5})}
    \cup {OtherRule}

FieldValues ==
    {IntV(n) : n \in {0, 1, 2, 3, 21, 22, 45, 65, 71}} \cup {StrV("male"), NaN}

\* The values around the thresholds of the Credit amount and Duration rules
\* of run.py.
ThresholdValues ==
    {IntV(n) : n \in {2000, 2001, 5000, 5001, 8000, 8001, 12, 13, 24, 25, 36, 37}}

FieldArgs ==
    {Args(NoTable, rules_cfg, RefLevels, f, v, NoRow, 0) :
        rules_cfg \in {<<Rule(Age, r)>> : r \in RuleSpecs} \cup {<< >>},
        f \in {Age, Job}, v \in FieldValues}
    \cup
    {Args(NoTable, RefRules, RefLevels, f, v, NoRow, 0) :
        f \in {CreditAmount, Duration}, v \in ThresholdValues}

InitField == \E a \in FieldArgs : Constructed(a)
NextField == CalculateFieldScore(args.field, args.value)
SpecField == InitField /\ [][NextField]_vars

(***************************************************************************)
(* Inputs: the tier lists and scores a score is classified with.           *)
(***************************************************************************)
\* The tiers of the specification's example.
ExampleLevels ==
    << Tier(70, "High"), Tier(50, "Med-high"), Tier(30, "Med-low"),
       Tier(0, "Low") >>

TierSet == {Tier(t, l) : t \in {0, 50, 101}, l \in {"Low risk", "High risk"}}
TierLists ==
    (SeqsUpTo(TierSet, MaxTiers) \ {<< >>}) \cup {RefLevels, ExampleLevels}

LevelArgs ==
    {Args(NoTable, << >>, levels, NoName, NaN, NoRow, score) :
        levels \in TierLists, score \in -1..101}

InitLevel == \E a \in LevelArgs : Constructed(a)
NextLevel == DetermineRiskLevel(args.score)
SpecLevel == InitLevel /\ [][NextLevel]_vars

(***************************************************************************)
(* Inputs: the rule configurations and records a record is scored with.    *)
(***************************************************************************)
\* Sequences of distinct elements of S, of length 0..n.
DistinctSeqsUpTo(S, n) ==
    {q \in SeqsUpTo(S, n) : \A i, j \in 1..Len(q) : i # j => q[i] # q[j]}

\* The keys: three of run.py's, and one that is its own normalized name (it
\* names the same record field as Age).
ScoreKeys == {Age, SavingAccounts, Job, normalized_name(Age)}
ScoreRules ==
    { MapRule(IntV(1) :> 60 @@ IntV(2) :> -5 @@ StrV("x") :> -7),
      ListRule(<< ThrEntry(1, 60), CondEntry("age_15", 45) >>),
      DefaultRule("saving", IntV(0) :> 10) }

\* The configurations: distinct keys in any order, any rule under each.
ScoreConfigs ==
    UNION { {[i \in 1..Len(keys) |-> Rule(keys[i], rules[i])] :
                rules \in [1..Len(keys) -> ScoreRules]} :
            keys \in DistinctSeqsUpTo(ScoreKeys, MaxFields) }

\* The records: any subset of the columns, any value in each.
ScoreColumns == {normalized_name(key) : key \in ScoreKeys}
ScoreValues == {IntV(0), IntV(1), IntV(2), StrV("x"), NaN}
ScoreRecords == UNION {[D -> ScoreValues] : D \in SUBSET ScoreColumns}

ScoreArgs ==
    {Args(NoTable, rules_cfg, RefLevels, NoName, NaN, row, 0) :
        rules_cfg \in ScoreConfigs, row \in ScoreRecords}

InitScore == \E a \in ScoreArgs : Constructed(a)
NextScore == CalculateRiskScore(args.row)
SpecScore == InitScore /\ [][NextScore]_vars

(***************************************************************************)
(* Inputs: the analyzers reports are generated with.  A table read from a  *)
(* CSV file has the index 0, 1, 2, ... and whatever column names the file  *)
(* has.                                                                    *)
(***************************************************************************)
RangeIndex(n) == [i \in 1..n |-> i - 1]
Table(columns, rows) ==
    [columns |-> columns, index |-> RangeIndex(Len(rows)), rows |-> rows]

\* The German credit columns, as load_data names them.
age == normalized_name(Age)
sex == normalized_name(Sex)
job == normalized_name(Job)
housing == normalized_name(Housing)
saving_accounts == normalized_name(SavingAccounts)
checking_account == normalized_name(CheckingAccount)
credit_amount == normalized_name(CreditAmount)
duration == normalized_name(Duration)
purpose == normalized_name(Purpose)
RefColumns ==
    << age, sex, job, housing, saving_accounts, checking_account,
       credit_amount, duration, purpose >>

Record(a, s, j, h, sa, ca, cr, d, p) ==
    age :> IntV(a) @@ sex :> StrV(s) @@ job :> IntV(j) @@ housing :> IntV(h)
    @@ saving_accounts :> IntV(sa) @@ checking_account :> IntV(ca)
    @@ credit_amount :> IntV(cr) @@ duration :> IntV(d) @@ purpose :> StrV(p)

\* The record of the specification's end-to-end example, a record whose
\* field scores sum above 100, and one that scores low.
ExampleRecord == Record(45, "male", 2, 2, 1, 1, 3000, 18, "car")
RiskyRecord == Record(19, "male", 0, 0, 0, 0, 9000, 48, "business")
SafeRecord == Record(35, "female", 3, 2, 4, 3, 1000, 6, "radio/TV")
RefRecords == {ExampleRecord, RiskyRecord, SafeRecord}

\* The calls of the end-to-end example: each field with its value, and the
\* score that is classified.
ExampleFields ==
    { <<Age, IntV(45)>>, <<Sex, StrV("male")>>, <<Job, IntV(2)>>,
      <<Housing, IntV(2)>>, <<SavingAccounts, IntV(1)>>,
      <<CheckingAccount, IntV(1)>>, <<CreditAmount, IntV(3000)>>,
      <<Duration, IntV(18)>>, <<Purpose, StrV("car")>> }
ExampleCalls ==
    {<<fv[1], fv[2], 44>> : fv \in ExampleFields} \cup {<<Age, IntV(45), 39>>}

RefArgs ==
    {Args(Table(RefColumns, rows), RefRules, RefLevels, c[1], c[2], NoRow, c[3]) :
        rows \in SeqsUpTo(RefRecords, MaxRows), c \in ExampleCalls}

\* Tables whose columns may bear the names the report uses, and rule
\* configurations whose keys may name them.
CustomerIdKey == <<"C","u","s","t","o","m","e","r"," ","I","D">>
RiskScoreKey == <<"R","i","s","k"," ","s","c","o","r","e">>
RiskLevelKey == <<"r","i","s","k","_","l","e","v","e","l">>

SmallColumns ==
    { <<age>>, <<age, risk_score>>, <<customer_id, age>>, <<risk_level, age>> }
SmallValues == {IntV(1), IntV(71)}
\* The rows of a small table: any value in each cell, the age being 1 when
\* the table has a second column.
SmallRows(columns) ==
    {row \in [Range(columns) -> SmallValues] :
        Len(columns) > 1 => row[age] = IntV(1)}
SmallTables ==
    UNION { {Table(columns, rows) : rows \in SeqsUpTo(SmallRows(columns), MaxRows)} :
            columns \in SmallColumns }
          \cup {Table(<< >>, << >>)}

SmallRule == ListRule(<< ThrEntry(1, 40), CondEntry("age_15", 25) >>)
SmallConfigs ==
    {[i \in 1..Len(keys) |-> Rule(keys[i], SmallRule)] :
        keys \in DistinctSeqsUpTo({Age, CustomerIdKey, RiskScoreKey, RiskLevelKey}, 2)}

SmallArgs ==
    {Args(table, rules_cfg, RefLevels, Age, IntV(71), NoRow, 40) :
        table \in SmallTables, rules_cfg \in SmallConfigs}

\* Tier lists of any shape (empty, unsorted, not reaching down to 0), scores
\* inside and outside 0..100, and tables with and without rows.
ShapeTiers == {Tier(t, l) : t \in {0, 30}, l \in {"Low risk", "High risk"}}
ShapeLevels == SeqsUpTo(ShapeTiers, MaxTiers)
ShapeScores == {-1, 0, 30, 101}
ShapeTables ==
    { Table(<<age>>, << >>), Table(<<age>>, << (age :> IntV(1)) >>),
      Table(<<age>>, << (age :> IntV(71)) >>) }
ShapeArgs ==
    {Args(table, <<Rule(Age, SmallRule)>>, levels, Age, IntV(71), NoRow, score) :
        table \in ShapeTables, levels \in {<< >>, <<Tier(30, "High risk")>>},
        score \in ShapeScores}
    \cup
    {Args(Table(<<age>>, << (age :> IntV(1)) >>), <<Rule(Age, SmallRule)>>,
          levels, Age, IntV(71), NoRow, score) :
        levels \in ShapeLevels, score \in {0, 30}}

OutputPaths == { <<"r", ".", "c", "s", "v">>, <<"r", ".", "t", "x", "t">> }

Init == \E a \in RefArgs \cup SmallArgs \cup ShapeArgs : Constructed(a)
Next ==
    \/ GenerateRiskReport
    \/ \E output_path \in OutputPaths : SaveRiskReport(output_path)
    \/ \E i \in 1..Len(data.rows) : CalculateRiskScore(data.rows[i])
    \/ CalculateRiskScore(args.row)
    \/ DetermineRiskLevel(args.score)
    \/ CalculateFieldScore(args.field, args.value)
Spec == Init /\ [][Next]_vars

(***************************************************************************)
(* DataProcessor (src/src/pygroupf/data_processing.py, and its copies      *)
(* src/src/german_credit_analysis/data_processing.py and                   *)
(* src/pygroupf/pygroupf/processing-1.py).                                 *)
(***************************************************************************)
\* What self.data can be: None, a str (the path processing-1.py stores in
\* it) or a DataFrame.
NoneData == NoData
StrData(path) == [kind |-> "str", path |-> path, df |-> NoTable]
FrameData(df) == [kind |-> "DataFrame", path |-> << >>, df |-> df]

\* A column of a table, top to bottom.
Column(df, col) == [i \in 1..Len(df.rows) |-> df.rows[i][col]]

\* name.startswith(prefix)
startswith(name, prefix) ==
    Len(name) >= Len(prefix) /\ SubSeq(name, 1, Len(prefix)) = prefix
Unnamed == <<"U","n","n","a","m","e","d">>

\* df.drop(df.columns[0], axis=1)
DropFirstColumn(df) ==
    [columns |-> Tail(df.columns),
     index |-> df.index,
     rows |-> [i \in 1..Len(df.rows) |->
                 [c \in Range(Tail(df.columns)) |-> df.rows[i][c]]]]

\* df.insert(0, 'customer_id', range(1, len(df) + 1))
InsertCustomerId(df) ==
    [columns |-> <<customer_id>> \o df.columns,
     index |-> df.index,
     rows |-> [i \in 1..Len(df.rows) |-> (customer_id :> IntV(i)) @@ df.rows[i]]]

\* name.lower() with every run of spaces replaced by one "_"
\* (str.replace(r"\s+", "_", regex=True)), from character i on.
RECURSIVE normalized_name_regex(_, _)
normalized_name_regex(name, i) ==
    IF i > Len(name) THEN << >>
    ELSE IF name[i] = " "
         THEN IF i > 1 /\ name[i - 1] = " "
              THEN normalized_name_regex(name, i + 1)
              ELSE <<"_">> \o normalized_name_regex(name, i + 1)
         ELSE <<lower(name[i])>> \o normalized_name_regex(name, i + 1)

\* How a variant's load_data renames a column.
RenamedBy(variant, name) ==
    IF variant = "processing1" THEN normalized_name_regex(name, 1)
    ELSE normalized_name(name)

\* df.columns = df.columns.str.lower().str.replace(...)
RenameColumns(df, variant) ==
    [columns |-> [j \in 1..Len(df.columns) |-> RenamedBy(variant, df.columns[j])],
     index |-> df.index,
     rows |-> [i \in 1..Len(df.rows) |->
                 [c \in {RenamedBy(variant, col) : col \in Range(df.columns)} |->
                     df.rows[i][CHOOSE col \in Range(df.columns) :
                                    RenamedBy(variant, col) = c]]]]

\* The body of load_data: the exception raised (or "none") and self.data as
\* the call leaves it.  A missing file raises before anything is assigned;
\* the emptiness assertion fails after self.data was assigned.
load_data(variant, before, raw) ==
    IF ~raw.exists THEN [exc |-> "FileNotFoundError", data |-> before]
    ELSE
    Bind(IF startswith(raw.table.columns[1], Unnamed)
         THEN DropFirstColumn(raw.table) ELSE raw.table,
         LAMBDA read :
    Bind(IF variant = "german" /\ customer_id \notin Range(read.columns)
         THEN InsertCustomerId(read) ELSE read,
         LAMBDA with_id :
    Bind(RenameColumns(with_id, variant),
         LAMBDA renamed :
    [exc |-> IF IsEmpty(renamed) THEN "AssertionError" ELSE "none",
     data |-> FrameData(renamed)])))

\* pd.to_numeric(value, errors="coerce"): a number stays, a str holding a
\* number is parsed, any other str and the missing value become missing.
NumericStrings == "7" :> 7 @@ "30" :> 30
to_numeric(value) ==
    IF value.t = "str"
    THEN IF value.s \in DOMAIN NumericStrings
         THEN IntV(NumericStrings[value.s]) ELSE NaN
    ELSE value

\* Series.fillna(fill)
fillna(values, fill) ==
    [i \in 1..Len(values) |-> IF values[i] = NaN THEN fill ELSE values[i]]

\* Series.isna().sum() == 0
NoneMissing(values) == \A i \in 1..Len(values) : values[i] # NaN

\* The k-th smallest of the ints at the positions `present` of a column.
KthSmallest(values, present, k) ==
    CHOOSE x \in {values[i].n : i \in present} :
        /\ Cardinality({i \in present : values[i].n < x}) < k
        /\ Cardinality({i \in present : values[i].n <= x}) >= k

\* Series.median() taken as the lower of the two middle values when the
\* number of values is even.
median_low(values) ==
    LET present == {i \in 1..Len(values) : values[i].t = "int"}
        count == Cardinality(present)
    IN  IF count = 0 THEN NaN
        ELSE IntV(KthSmallest(values, present, (count + 1) \div 2))

\* Series.median(): the middle of the values that are not missing, the mean
\* of the two middle ones when their number is even, missing when there is
\* none.  (The values are ints wherever something is missing: a column
\* holds a half only after its missing values were filled.)
median(values) ==
    LET present == {i \in 1..Len(values) : values[i].t = "int"}
        count == Cardinality(present)
    IN  IF count = 0 THEN NaN
        ELSE IF count % 2 = 1 THEN IntV(KthSmallest(values, present, (count + 1) \div 2))
        ELSE LET sum == KthSmallest(values, present, count \div 2)
                        + KthSmallest(values, present, count \div 2 + 1)
             IN  IF sum % 2 = 0 THEN IntV(sum \div 2) ELSE HalfV(sum)

\* The loop over the categorical columns, from column i on.
RECURSIVE CleanCategorical(_, _, _)
CleanCategorical(df, cols, i) ==
    IF i > Len(cols) THEN df
    ELSE IF cols[i] \notin Range(df.columns)
         THEN CleanCategorical(df, cols, i + 1)
         ELSE CleanCategorical(
                  SetColumn(df, cols[i],
                            fillna(Column(df, cols[i]), StrV("unknown"))),
                  cols, i + 1)

\* The loop over the numerical columns, from column i on: the exception
\* raised (or "none") and the table as the loop leaves it.
RECURSIVE CleanNumerical(_, _, _)
CleanNumerical(df, cols, i) ==
    IF i > Len(cols) THEN [exc |-> "none", df |-> df]
    ELSE IF cols[i] \notin Range(df.columns)
         THEN CleanNumerical(df, cols, i + 1)
         ELSE
         Bind([k \in 1..Len(df.rows) |-> to_numeric(df.rows[k][cols[i]])],
              LAMBDA numeric :
         Bind(SetColumn(df, cols[i], fillna(numeric, median(numeric))),
              LAMBDA filled :
         IF ~NoneMissing(Column(filled, cols[i]))
         THEN [exc |-> "AssertionError", df |-> filled]
         ELSE CleanNumerical(filled, cols, i + 1)))

\* [col.lower().replace(" ", "_") for col in cols]
NormalizedNames(cols) == [i \in 1..Len(cols) |-> normalized_name(cols[i])]

\* The body of clean_data on a DataFrame: the exception raised (or "none")
\* and the table as the call leaves it.
clean_data(df, categorical_cols, numerical_cols) ==
    CleanNumerical(CleanCategorical(df, NormalizedNames(categorical_cols), 1),
                   NormalizedNames(numerical_cols), 1)

\* A column mapping: an insertion-ordered dict of (column name, value map).
Mapping(key, map) == [key |-> key, map |-> map]

\* internal_mapping: the value map stored under each normalized column name
\* (a later key with the same normalized name replaces an earlier one).
InternalMapping(column_mapping) ==
    [col \in {normalized_name(column_mapping[i].key) :
                 i \in 1..Len(column_mapping)} |->
        LET named == {i \in 1..Len(column_mapping) :
                         normalized_name(column_mapping[i].key) = col}
        IN  column_mapping[CHOOSE i \in named : \A j \in named : j <= i].map]

\* Series.map(value_map) taken as keeping a value that is no key.
MapValueOrKeep(value_map, value) ==
    IF value \in DOMAIN value_map THEN IntV(value_map[value]) ELSE value

\* Series.map(value_map) on one value: the image of a key, missing otherwise.
MapValue(value_map, value) ==
    IF value \in DOMAIN value_map THEN IntV(value_map[value]) ELSE NaN

\* The table left as it is: no column is mapped.
encode_nothing(df, column_mapping) == df

\* The body of encode_categorical_values on a DataFrame: every column of the
\* table that the internal mapping names is replaced by its image.
encode_categorical_values(df, column_mapping) ==
    LET internal_mapping == InternalMapping(column_mapping)
    IN  [columns |-> df.columns,
         index |-> df.index,
         rows |-> [i \in 1..Len(df.rows) |->
                     [c \in Range(df.columns) |->
                         IF c \in DOMAIN internal_mapping
                         THEN MapValue(internal_mapping[c], df.rows[i][c])
                         ELSE df.rows[i][c]]]]

\* The column lists and the mapping of run.py, and the ones the variant of
\* german_credit_analysis has built in.
RunCategorical == <<Sex, Housing, SavingAccounts, CheckingAccount, Purpose>>
RunNumerical == <<Age, Job, CreditAmount, Duration>>
RunMapping ==
    << Mapping(Sex, StrV("male") :> 1 @@ StrV("female") :> 0
                    @@ StrV("unknown") :> -1),
       Mapping(Housing, StrV("own") :> 2 @@ StrV("free") :> 1
                        @@ StrV("rent") :> 0 @@ StrV("unknown") :> -1),
       Mapping(SavingAccounts, StrV("unknown") :> 0 @@ StrV("little") :> 1
                               @@ StrV("moderate") :> 2
                               @@ StrV("quite rich") :> 3 @@ StrV("rich") :> 4),
       Mapping(CheckingAccount, StrV("unknown") :> 0 @@ StrV("little") :> 1
                                @@ StrV("moderate") :> 2 @@ StrV("rich") :> 3) >>

GermanCategorical == <<sex, housing, saving_accounts, checking_account, purpose>>
GermanNumerical == <<age, job, credit_amount, duration>>
GermanMapping ==
    << Mapping(sex, StrV("male") :> 1 @@ StrV("female") :> 0
                    @@ StrV("unknown") :> -1),
       Mapping(housing, StrV("own") :> 2 @@ StrV("free") :> 1
                        @@ StrV("rent") :> 0 @@ StrV("unknown") :> -1),
       Mapping(saving_accounts, StrV("none") :> 0 @@ StrV("little") :> 1
                                @@ StrV("moderate") :> 2
                                @@ StrV("quite rich") :> 3 @@ StrV("rich") :> 4
                                @@ StrV("unknown") :> -1),
       Mapping(checking_account, StrV("none") :> 0 @@ StrV("little") :> 1
                                 @@ StrV("moderate") :> 2 @@ StrV("rich") :> 3
                                 @@ StrV("unknown") :> -1) >>

\* DataProcessor(file_path): processing-1.py stores a path in self.data, the
\* other variants store None.
NewProcessor(variant, file_path) ==
    [variant |-> variant, file_path |-> file_path,
     data |-> IF variant = "processing1" THEN StrData(file_path) ELSE NoneData]

\* The method clean_data of a variant: the `is None` guard, then the body (on
\* a str, `self.data.columns` fails as soon as a column is looked at).
CleanDataMethod(p, categorical_cols, numerical_cols) ==
    LET cat == IF p.variant = "german" THEN GermanCategorical ELSE categorical_cols
        num == IF p.variant = "german" THEN GermanNumerical ELSE numerical_cols
    IN  IF p.data.kind = "None" THEN [exc |-> "ValueError", data |-> p.data]
        ELSE IF p.data.kind = "str"
             THEN [exc |-> IF Len(cat) + Len(num) > 0 THEN "AttributeError"
                           ELSE "none",
                   data |-> p.data]
        ELSE Bind(clean_data(p.data.df, cat, num), LAMBDA cleaned :
                  [exc |-> cleaned.exc, data |-> FrameData(cleaned.df)])

\* The method encode_categorical_values of a variant.
EncodeMethod(p, column_mapping) ==
    LET mapping == IF p.variant = "german" THEN GermanMapping ELSE column_mapping
    IN  IF p.data.kind = "None" THEN [exc |-> "ValueError", data |-> p.data]
        ELSE IF p.data.kind = "str"
             THEN [exc |-> IF Len(mapping) > 0 THEN "AttributeError" ELSE "none",
                   data |-> p.data]
        ELSE [exc |-> "none",
              data |-> FrameData(encode_categorical_values(p.data.df, mapping))]

\* The method get_processed_data: the `is None` guard, os.makedirs, then
\* self.data.to_csv (which a str does not have).
get_processed_data(p, fs) ==
    IF p.data.kind = "None" THEN [exc |-> "ValueError", files |-> fs]
    ELSE IF p.data.kind = "str"
         THEN [exc |-> "AttributeError", files |-> [fs EXCEPT !.data_dir = TRUE]]
    ELSE [exc |-> "none",
          files |-> [fs EXCEPT !.data_dir = TRUE,
                               !.processed = to_csv(p.data.df)]]

ProcessorCall(op) == Call(op, NoName, NaN, NoRow, 0, NoName)
Outcome(exc) == IF exc = "none" THEN Return(0) ELSE Raise(exc)

LoadData ==
    \E loaded \in {load_data(processor.variant, processor.data, files.raw)} :
        /\ processor.variant # "none"
        /\ call' = ProcessorCall("load_data")
        /\ ret' = Outcome(loaded.exc)
        /\ processor' = [processor EXCEPT !.data = loaded.data]
        /\ UNCHANGED <<args, data, scoring_rules, risk_levels, report, csv, files>>

CleanData(categorical_cols, numerical_cols) ==
    \E cleaned \in {CleanDataMethod(processor, categorical_cols, numerical_cols)} :
        /\ processor.variant # "none"
        /\ call' = ProcessorCall("clean_data")
        /\ ret' = Outcome(cleaned.exc)
        /\ processor' = [processor EXCEPT !.data = cleaned.data]
        /\ UNCHANGED <<args, data, scoring_rules, risk_levels, report, csv, files>>

EncodeCategoricalValues(column_mapping) ==
    \E encoded \in {EncodeMethod(processor, column_mapping)} :
        /\ processor.variant # "none"
        /\ call' = ProcessorCall("encode_categorical_values")
        /\ ret' = Outcome(encoded.exc)
        /\ processor' = [processor EXCEPT !.data = encoded.data]
        /\ UNCHANGED <<args, data, scoring_rules, risk_levels, report, csv, files>>

GetProcessedData ==
    \E got \in {get_processed_data(processor, files)} :
        /\ processor.variant # "none"
        /\ call' = ProcessorCall("get_processed_data")
        /\ ret' = Outcome(got.exc)
        /\ files' = got.files
        /\ UNCHANGED <<args, data, scoring_rules, risk_levels, report, csv,
                       processor>>

(***************************************************************************)
(* Inputs: the processors, raw files, column lists and mappings the        *)
(* DataProcessor methods are called with, in any order.                    *)
(***************************************************************************)
UnnamedColumn == <<"U","n","n","a","m","e","d",":"," ","0">>
RawPath == <<"r", "a", "w", ".", "c", "s", "v">>

RawFile(table) == [exists |-> TRUE, table |-> table]
MissingFile == [exists |-> FALSE, table |-> NoTable]

\* Rows of a raw file with the columns Age and Sex: numbers, a number read
\* as text, text that is no number, and missing values.
RawRow(index, age_value, sex_value) ==
    UnnamedColumn :> IntV(index) @@ Age :> age_value @@ Sex :> sex_value
RawRows ==
    { RawRow(0, IntV(20), StrV("male")), RawRow(1, IntV(25), NaN),
      RawRow(2, NaN, StrV("other")), RawRow(3, StrV("x"), StrV("female")),
      RawRow(4, StrV("30"), StrV("male")) }
\* Up to n of the rows, in the order of their index.
RowsInOrder(n) ==
    {rows \in SeqsUpTo(RawRows, n) :
        \A i \in 1..(Len(rows) - 1) :
            rows[i][UnnamedColumn].n < rows[i + 1][UnnamedColumn].n}
\* Files with the unnamed index column pandas writes, and files without it.
RawTables ==
    {Table(<<UnnamedColumn, Age, Sex>>, rows) : rows \in RowsInOrder(MaxRawRows)}
    \cup {Table(<<Age, Sex>>,
                [i \in 1..Len(rows) |-> [c \in {Age, Sex} |-> rows[i][c]]]) :
              rows \in SeqsUpTo(RawRows, 1)}
RawFiles == {RawFile(table) : table \in RawTables} \cup {MissingFile}

\* The arguments of clean_data and encode_categorical_values.
SexMapping == StrV("male") :> 1 @@ StrV("female") :> 0 @@ StrV("unknown") :> -1
NoArguments ==
    [categorical_cols |-> << >>, numerical_cols |-> << >>, column_mapping |-> << >>]
ProcessorCalls ==
    { [categorical_cols |-> <<Sex>>, numerical_cols |-> <<Age>>,
       column_mapping |-> <<Mapping(Sex, SexMapping)>>],
      [categorical_cols |-> <<Sex, Age>>, numerical_cols |-> <<Age, Job>>,
       column_mapping |-> <<Mapping(Sex, StrV("male") :> 5),
                            Mapping(sex, SexMapping), Mapping(Job, SexMapping)>>],
      NoArguments }

\* The three copies of the class; the methods of the german_credit_analysis
\* copy take no arguments.
Variants == {"pygroupf", "german", "processing1"}
CallsOf(variant) == IF variant = "german" THEN {NoArguments} ELSE ProcessorCalls

ProcessorArgs(variant, raw, c) ==
    [data |-> NoTable, scoring_rules |-> RefRules, risk_levels |-> RefLevels,
     field |-> NoName, value |-> NaN, row |-> NoRow, score |-> 0,
     variant |-> variant, raw |-> raw,
     categorical_cols |-> c.categorical_cols,
     numerical_cols |-> c.numerical_cols, column_mapping |-> c.column_mapping]

\* The state after DataProcessor(file_path), before any analyzer exists.
ProcessorConstructed(a) ==
    /\ args = a
    /\ processor = NewProcessor(a.variant, RawPath)
    /\ files = [raw |-> a.raw, data_dir |-> FALSE, processed |-> NoFile]
    /\ data = NoTable
    /\ scoring_rules = << >>
    /\ risk_levels = << >>
    /\ call = ProcessorCall("DataProcessor")
    /\ ret = Return(0)
    /\ report = NoTable
    /\ csv = NoFile

InitProcessor ==
    \E variant \in Variants, raw \in RawFiles :
        \E c \in CallsOf(variant) :
            ProcessorConstructed(ProcessorArgs(variant, raw, c))
NextProcessor ==
    \/ LoadData
    \/ CleanData(args.categorical_cols, args.numerical_cols)
    \/ EncodeCategoricalValues(args.column_mapping)
    \/ GetProcessedData
SpecProcessor == InitProcessor /\ [][NextProcessor]_vars

(***************************************************************************)
(* The pipeline of run.py: load, clean, encode, save the processed data,   *)
(* then construct the analyzer on it, generate the report and save it.     *)
(* A statement runs when the one before it returned; an exception ends the *)
(* script.                                                                 *)
(***************************************************************************)
\* DataAnalyzer(processed_data, scoring_rules, risk_levels) as a step: the
\* analyzer's table is the processor's DataFrame.
ConstructAnalyzer(table, rules_cfg, levels) ==
    /\ data' = table
    /\ call' = ProcessorCall("DataAnalyzer")
    /\ IF Len(levels) > 0
       THEN /\ scoring_rules' = rules_cfg
            /\ risk_levels' = SortedDescending(levels)
            /\ ret' = Return(0)
       ELSE /\ UNCHANGED <<scoring_rules, risk_levels>>
            /\ ret' = Raise("AssertionError")
    /\ UNCHANGED <<args, report, csv, processor, files>>

Returned(op) == call.op = op /\ ret.exc = "none"
ReportPath ==
    <<"d","a","t","a","/","r","i","s","k","_","r","e","p","o","r","t",
      ".","c","s","v">>

\* A row of the raw German credit file.
RawRecord(index, a, s, j, h, sa, ca, cr, d, p) ==
    UnnamedColumn :> IntV(index) @@ Age :> a @@ Sex :> s @@ Job :> IntV(j)
    @@ Housing :> StrV(h) @@ SavingAccounts :> sa @@ CheckingAccount :> ca
    @@ CreditAmount :> IntV(cr) @@ Duration :> IntV(d) @@ Purpose :> StrV(p)
RawColumns ==
    << UnnamedColumn, Age, Sex, Job, Housing, SavingAccounts, CheckingAccount,
       CreditAmount, Duration, Purpose >>
\* The example record as the raw file holds it, and records whose sex is
\* female, missing, and a value the mapping does not have.
RawRecords ==
    { RawRecord(0, IntV(45), StrV("male"), 2, "own", StrV("little"),
                StrV("little"), 3000, 18, "car"),
      RawRecord(1, IntV(19), StrV("female"), 0, "rent", NaN, NaN, 9000, 48,
                "business"),
      RawRecord(2, NaN, NaN, 3, "free", StrV("rich"), StrV("moderate"), 1000, 6,
                "radio/TV"),
      RawRecord(3, IntV(35), StrV("other"), 1, "own", StrV("moderate"),
                StrV("rich"), 6000, 30, "repairs") }
PipelineFiles ==
    {RawFile(Table(RawColumns, rows)) : rows \in SeqsUpTo(RawRecords, MaxRows)}
    \cup {MissingFile}

InitPipeline ==
    \E raw \in PipelineFiles :
        ProcessorConstructed(
            ProcessorArgs("pygroupf", raw,
                          [categorical_cols |-> RunCategorical,
                           numerical_cols |-> RunNumerical,
                           column_mapping |-> RunMapping]))
NextPipeline ==
    \/ Returned("DataProcessor") /\ LoadData
    \/ Returned("load_data") /\ CleanData(RunCategorical, RunNumerical)
    \/ Returned("clean_data") /\ EncodeCategoricalValues(RunMapping)
    \/ Returned("encode_categorical_values") /\ GetProcessedData
    \/ Returned("get_processed_data")
       /\ ConstructAnalyzer(processor.data.df, RefRules, RefLevels)
    \/ Returned("DataAnalyzer") /\ GenerateRiskReport
    \/ Returned("generate_risk_report") /\ SaveRiskReport(ReportPath)
SpecPipeline == InitPipeline /\ [][NextPipeline]_vars

(***************************************************************************)
(* The hard-coded analyzer (src/src/german_credit_analysis/analysis.py).   *)
(* The cells it reads are ints, strs or missing values.                    *)
(***************************************************************************)
\* The age test with `if` for each `elif`: every branch that holds adds up.
GermanAgeScoreAllBranches(value) ==
    (IF Lt(value, 20) \/ Gt(value, 70) THEN 15 ELSE 0)
    + (IF Lt(value, 25) \/ Gt(value, 60) THEN 10 ELSE 0)
    + (IF Lt(value, 30) \/ Gt(value, 50) THEN 5 ELSE 0)

\* 1. Age
GermanAgeScore(value) ==
    IF Lt(value, 20) \/ Gt(value, 70) THEN 15
    ELSE IF Lt(value, 25) \/ Gt(value, 60) THEN 10
    ELSE IF Lt(value, 30) \/ Gt(value, 50) THEN 5
    ELSE 0

\* 7. and 8. Credit amount and duration: the first bound the value is above.
GermanStepScore(value, high, middle, low) ==
    IF Gt(value, high) THEN 15
    ELSE IF Gt(value, middle) THEN 10
    ELSE IF Gt(value, low) THEN 5
    ELSE 0

\* 9. Purpose
GermanPurposeScore(value) ==
    IF value \in {StrV("business"), StrV("education")} THEN 10
    ELSE IF value = StrV("unknown") THEN 8
    ELSE IF value \in {StrV("car"), StrV("furniture/equipment")} THEN 5
    ELSE IF value \in {StrV("radio/TV"), StrV("domestic appliances"),
                        StrV("repairs"), StrV("vacation/others")} THEN 3
    ELSE 0

\* The nine steps of calculate_risk_score, in the order of the code: what
\* step k adds to the score.  Comparing a str with < or >, or subtracting
\* one, raises TypeError; == on any value does not.
GermanFields ==
    << age, sex, job, housing, saving_accounts, checking_account,
       credit_amount, duration, purpose >>
GermanFieldScore(k, value) ==
    CASE k = 1 -> IF CmpRaises(value) THEN Raise("TypeError")
                  ELSE Return(GermanAgeScore(value))
      [] k = 2 -> Return(IF value = IntV(1) THEN 2 ELSE 0)
      [] k = 3 -> Return(DictGet(IntV(0) :> 15 @@ IntV(1) :> 10 @@ IntV(2) :> 5
                                 @@ IntV(3) :> 1, value, 0))
      [] k = 4 -> Return(DictGet(IntV(0) :> 15 @@ IntV(1) :> 10 @@ IntV(2) :> 5,
                                 value, 0))
      [] k = 5 -> IF value = IntV(0) THEN Return(10)
                  ELSE IF value.t = "str" THEN Raise("TypeError")
                  ELSE Return((4 - value.n) * 3)
      [] k = 6 -> IF value = IntV(0) THEN Return(10)
                  ELSE IF value.t = "str" THEN Raise("TypeError")
                  ELSE Return((3 - value.n) * 4)
      [] k = 7 -> IF CmpRaises(value) THEN Raise("TypeError")
                  ELSE Return(GermanStepScore(value, 8000, 5000, 2000))
      [] k = 8 -> IF CmpRaises(value) THEN Raise("TypeError")
                  ELSE Return(GermanStepScore(value, 36, 24, 12))
      [] k = 9 -> Return(GermanPurposeScore(value))

\* Steps k..9 with the running score; `nan` tells that a missing savings or
\* checking value has turned the score into nan, which the clamp leaves as
\* it is and the final assertion rejects.
RECURSIVE GermanSum(_, _, _, _)
GermanSum(row, k, score, nan) ==
    IF k > Len(GermanFields)
    THEN IF nan THEN Raise("AssertionError") ELSE Return(Clamp(score))
    ELSE IF GermanFields[k] \notin DOMAIN row THEN Raise("KeyError")
    ELSE LET value == row[GermanFields[k]]
             field == GermanFieldScore(k, value)
         IN  IF field.exc # "none" THEN field
             ELSE GermanSum(row, k + 1, score + field.val,
                            nan \/ (k \in {5, 6} /\ value = NaN))

german_calculate_risk_score(row) == GermanSum(row, 1, 0, FALSE)

german_determine_risk_level(score) ==
    IF score >= 70 THEN ReturnLevel("High risk")
    ELSE IF score >= 50 THEN ReturnLevel("Medium-high risk")
    ELSE IF score >= 30 THEN ReturnLevel("Medium-low risk")
    ELSE ReturnLevel("Low risk")

GermanCalculateRiskScore(row) ==
    /\ call' = Call("german.calculate_risk_score", NoName, NaN, row, 0, NoName)
    /\ ret' = german_calculate_risk_score(row)
    /\ UNCHANGED <<args, data, scoring_rules, risk_levels, report, csv>>
    /\ UNCHANGED <<processor, files>>

GermanDetermineRiskLevel(score) ==
    /\ call' = Call("german.determine_risk_level", NoName, NaN, NoRow, score,
                    NoName)
    /\ ret' = german_determine_risk_level(score)
    /\ UNCHANGED <<args, data, scoring_rules, risk_levels, report, csv>>
    /\ UNCHANGED <<processor, files>>

(***************************************************************************)
(* Inputs: the records and scores both analyzers are given.  The           *)
(* configurable analyzer reads the sex as 'male' / 'female', the           *)
(* hard-coded one as 1 / 0.                                                *)
(***************************************************************************)
SexEncoded(row) ==
    [row EXCEPT ![sex] = IF row[sex] = StrV("male") THEN IntV(1) ELSE IntV(0)]

Ages == {-1, 0, 19, 20, 24, 25, 29, 30, 40, 50, 51, 60, 61, 70, 71}
Sexes == {StrV("male"), StrV("female")}
Amounts == {0, 2000, 2001, 5000, 5001, 8000, 8001}
Durations == {0, 12, 13, 24, 25, 36, 37}
Purposes ==
    {StrV(p) : p \in {"business", "education", "unknown", "car",
                       "furniture/equipment", "radio/TV", "domestic appliances",
                       "repairs", "vacation/others", "other"}}

\* A reference record with one field given any of its values, and the
\* example record with any job, housing, savings and checking codes.
BothRecords ==
    UNION { {[base EXCEPT ![age] = IntV(a)] : a \in Ages}
            \cup {[base EXCEPT ![sex] = s] : s \in Sexes}
            \cup {[base EXCEPT ![credit_amount] = IntV(c)] : c \in Amounts}
            \cup {[base EXCEPT ![duration] = IntV(d)] : d \in Durations}
            \cup {[base EXCEPT ![purpose] = p] : p \in Purposes} :
            base \in RefRecords }
    \cup {[ExampleRecord EXCEPT ![job] = IntV(j), ![housing] = IntV(h),
                                ![saving_accounts] = IntV(sa),
                                ![checking_account] = IntV(ca)] :
             j \in 0..3, h \in 0..2, sa \in 0..4, ca \in 0..3}

BothArgs ==
    {Args(NoTable, RefRules, RefLevels, NoName, NaN, row, 0) : row \in BothRecords}
    \cup {Args(NoTable, RefRules, RefLevels, NoName, NaN, ExampleRecord, score) :
             score \in 0..100}

InitBoth == \E a \in BothArgs : Constructed(a)
NextBoth ==
    \/ CalculateRiskScore(args.row)
    \/ GermanCalculateRiskScore(SexEncoded(args.row))
    \/ DetermineRiskLevel(args.score)
    \/ GermanDetermineRiskLevel(args.score)
SpecBoth == InitBoth /\ [][NextBoth]_vars

(***************************************************************************)
(* Claims.                                                                 *)
(***************************************************************************)
Least(S) == CHOOSE x \in S : \A y \in S : x <= y
Greatest(S) == CHOOSE x \in S : \A y \in S : x >= y

\* ---- classification (SpecLevel) ----
Classified == call.op = "determine_risk_level" /\ call.score \in 0..100

\* The tiers, as supplied to the constructor, whose threshold is <= score.
TiersAtMost(score) ==
    {i \in 1..Len(args.risk_levels) : args.risk_levels[i].threshold <= score}
\* Among them, the earliest supplied one with the greatest threshold.
BestTier(score) ==
    LET top == Greatest({args.risk_levels[i].threshold : i \in TiersAtMost(score)})
    IN  Least({i \in TiersAtMost(score) : args.risk_levels[i].threshold = top})

\* C2: for a score in 0..100, determine_risk_level returns the label of the
\* tier with the greatest threshold not exceeding the score (the earliest
\* supplied one when several tiers share that threshold), and returns
\* "Unknown" exactly when no tier has a threshold <= the score.
C2_ClassifyGreatestThreshold ==
    Classified =>
        /\ ret.exc = "none"
        /\ TiersAtMost(call.score) # {} =>
               ret.level = args.risk_levels[BestTier(call.score)].level
        /\ ret.level = "Unknown" <=> TiersAtMost(call.score) = {}

C2_Witness ==
    /\ Classified
    /\ Cardinality(TiersAtMost(call.score)) >= 2
    /\ \E i \in TiersAtMost(call.score) :
           /\ args.risk_levels[i].threshold
                  < args.risk_levels[BestTier(call.score)].threshold
           /\ args.risk_levels[i].level # ret.level
           /\ i < BestTier(call.score)
    /\ ret.level = args.risk_levels[BestTier(call.score)].level

\* C3: every score in 0..100 gets exactly one label; a lower score is never
\* put in a tier with a higher threshold than a higher score; and with the
\* tiers (70,High),(50,Med-high),(30,Med-low),(0,Low): 69 is Med-high, 70 is
\* High, 0 is Low and 100 is High (the same positions with the labels of
\* run.py's risk_levels).
ExampleLevel(levels, position) ==
    Classified /\ args.risk_levels = levels => ret.level = levels[position].level

C3_ClassifyMonotonic ==
    /\ Classified =>
        /\ ret.exc = "none"
        /\ ret.level \in {risk_levels[i].level : i \in 1..Len(risk_levels)}
                         \cup {"Unknown"}
        /\ \A below \in 0..call.score :
               LET low == FirstTier(risk_levels, 1, below)
                   high == FirstTier(risk_levels, 1, call.score)
               IN  low # 0 =>
                       /\ high # 0
                       /\ ret.level = risk_levels[high].level
                       /\ risk_levels[low].threshold <= risk_levels[high].threshold
    /\ \A levels \in {ExampleLevels, RefLevels} :
        /\ call.score = 69 => ExampleLevel(levels, 2)
        /\ call.score = 70 => ExampleLevel(levels, 1)
        /\ call.score = 0 => ExampleLevel(levels, 4)
        /\ call.score = 100 => ExampleLevel(levels, 1)

C3_Witness ==
    /\ Classified
    /\ args.risk_levels = ExampleLevels
    /\ call.score = 69
    /\ ret.level = "Med-high"

\* ---- single-field scoring (SpecField) ----
ScoredField == call.op = "calculate_field_score"
CalledRule == RulesGet(scoring_rules, call.field)

\* An entry of a range rule matches a value: its predicate is true of it, or
\* the value is above its threshold.
EntryMatches(entry, value) ==
    \/ entry.hasCond /\ Condition(entry.cond, value).truth
    \/ entry.hasThr /\ Gt(value, entry.thr)
MatchingEntries(entries, value) ==
    {i \in 1..Len(entries) : EntryMatches(entries[i], value)}

\* C4: for a range rule and a value its entries can be evaluated on, the
\* score is that of the first configured entry that matches, whatever later
\* entries match, and 0 when none matches.
C4_RangeRulesFirstMatch ==
    ScoredField /\ CalledRule.kind = "list" /\ ~CmpRaises(call.value) =>
        LET entries == CalledRule.entries
            matching == MatchingEntries(entries, call.value)
        IN  ret = IF matching = {} THEN Return(0)
                  ELSE Return(entries[Least(matching)].score)

C4_Witness ==
    /\ ScoredField /\ CalledRule.kind = "list" /\ ~CmpRaises(call.value)
    /\ LET entries == CalledRule.entries
           matching == MatchingEntries(entries, call.value)
       IN  /\ Cardinality(matching) >= 2
           /\ \E j \in matching : /\ entries[j].score > entries[Least(matching)].score
                                  /\ entries[j].hasThr
                                  /\ entries[Least(matching)].hasThr
                                  /\ entries[j].thr > entries[Least(matching)].thr
           /\ ret.val = entries[Least(matching)].score

\* C5: for a rule with a default function, a value that is a key of
\* `specific` scores specific[value], whatever the default function computes.
C5_SpecificOverridesDefault ==
    ScoredField /\ CalledRule.kind = "dict" /\ CalledRule.hasDefault
    /\ CalledRule.hasSpecific /\ call.value \in DOMAIN CalledRule.specific =>
        ret = Return(CalledRule.specific[call.value])

C5_Witness ==
    /\ ScoredField /\ CalledRule.kind = "dict" /\ CalledRule.hasDefault
    /\ CalledRule.hasSpecific /\ call.value \in DOMAIN CalledRule.specific
    /\ CallDefault(CalledRule, call.value).exc = "none"
    /\ CallDefault(CalledRule, call.value).val
           # CalledRule.specific[call.value]
    /\ ret.val = CalledRule.specific[call.value]

\* C10: calculate_field_score never raises, whatever the field name, the
\* value and the rule.
C10_FieldScoreNeverRaises == ScoredField => ret.exc = "none"

\* The field called has a rule in the configuration.
Configured(field_name) ==
    \E i \in 1..Len(scoring_rules) : scoring_rules[i].key = field_name
\* The rule called is a plain value mapping.
IsMapping(rule) == rule.kind = "dict" /\ ~rule.hasDefault

\* C11: calculate_field_score returns 0, and does not raise, for a field
\* name the configuration has no rule for; for a field whose rule is a value
\* mapping it returns mapping[value] when the value is a key of the mapping
\* and 0 when it is not.
C11_MissingRuleAndMapping ==
    ScoredField =>
        /\ ~Configured(call.field) => ret = Return(0)
        /\ Configured(call.field) /\ IsMapping(CalledRule) =>
               ret = IF call.value \in DOMAIN CalledRule.mapping
                     THEN Return(CalledRule.mapping[call.value])
                     ELSE Return(0)

C11_Witness ==
    /\ ScoredField /\ Configured(call.field) /\ IsMapping(CalledRule)
    /\ call.value \in DOMAIN CalledRule.mapping
    /\ call.value = StrV("male")
    /\ ret = Return(5)

\* C15: a configured rule that is none of the recognized shapes (not a list
\* and not a dict) is rejected: scoring a field with it raises.
C15_MalformedRuleRejected ==
    ScoredField /\ Configured(call.field) /\ CalledRule.kind = "other" =>
        ret.exc # "none"

\* The `specific` dict of a rule with a default function ({} when absent).
SpecificOf(rule) == IF rule.hasSpecific THEN rule.specific ELSE EmptyDict
\* The rule called has a default function, and the value is not an override.
DefaultApplies ==
    /\ ScoredField /\ Configured(call.field)
    /\ CalledRule.kind = "dict" /\ CalledRule.hasDefault
    /\ call.value \notin DOMAIN SpecificOf(CalledRule)

\* C20: for a rule with a default function and a value that is not a key of
\* `specific`, calculate_field_score returns default(value) when the default
\* function returns; when it raises TypeError or KeyError, the call does not
\* raise and returns specific[0] if `specific` has the key 0, else 0.
C20_DefaultFallback ==
    DefaultApplies =>
        LET computed == CallDefault(CalledRule, call.value)
            specific == SpecificOf(CalledRule)
        IN  /\ computed.exc = "none" => ret = computed
            /\ computed.exc \in {"TypeError", "KeyError"} =>
                   ret = IF IntV(0) \in DOMAIN specific
                         THEN Return(specific[IntV(0)]) ELSE Return(0)

C20_Witness ==
    /\ DefaultApplies
    /\ CallDefault(CalledRule, call.value).exc = "KeyError"
    /\ IntV(0) \in DOMAIN SpecificOf(CalledRule)
    /\ ret = Return(7)

\* Every entry of a range rule is of the threshold form.
ThresholdOnly(entries) ==
    \A i \in 1..Len(entries) : entries[i].hasThr /\ ~entries[i].hasCond
\* The entries whose threshold is strictly below n.
ThresholdsBelow(entries, n) == {i \in 1..Len(entries) : entries[i].thr < n}
\* The scores of the Credit amount rule of run.py around its thresholds.
CreditAmountScores ==
    2000 :> 0 @@ 2001 :> 5 @@ 5000 :> 5 @@ 5001 :> 10 @@ 8000 :> 10 @@ 8001 :> 15

\* C21: an entry of the threshold form matches exactly when the value is
\* strictly above its threshold: a range rule of such entries scores an int
\* as the first entry whose threshold is below it (an entry whose threshold
\* equals the value is passed over) and 0 when there is none; the Credit
\* amount rule of run.py scores 2000 as 0, 2001 and 5000 as 5, 5001 and 8000
\* as 10, and 8001 as 15.
C21_ThresholdIsStrict ==
    /\ ScoredField /\ CalledRule.kind = "list" /\ call.value.t = "int"
       /\ ThresholdOnly(CalledRule.entries) =>
           LET entries == CalledRule.entries
               below == ThresholdsBelow(entries, call.value.n)
           IN  ret = IF below = {} THEN Return(0)
                     ELSE Return(entries[Least(below)].score)
    /\ ScoredField /\ scoring_rules = RefRules /\ call.field = CreditAmount
       /\ call.value.t = "int" /\ call.value.n \in DOMAIN CreditAmountScores =>
           ret = Return(CreditAmountScores[call.value.n])

C21_Witness ==
    /\ ScoredField /\ CalledRule.kind = "list" /\ call.value.t = "int"
    /\ ThresholdOnly(CalledRule.entries) /\ Len(CalledRule.entries) = 2
    /\ CalledRule.entries[1].thr = call.value.n
    /\ CalledRule.entries[2].thr < call.value.n
    /\ CalledRule.entries[1].score # CalledRule.entries[2].score
    /\ ret = Return(CalledRule.entries[2].score)

\* ---- record scoring (SpecScore) ----
ScoredRecord == call.op = "calculate_risk_score"

ConfiguredKeys == {scoring_rules[i].key : i \in 1..Len(scoring_rules)}
HasAllFields(row) ==
    /\ DOMAIN row # {}
    /\ \A key \in ConfiguredKeys : normalized_name(key) \in DOMAIN row
FieldScore(row, key) ==
    calculate_field_score(scoring_rules, key, row[normalized_name(key)])
\* Every configured field of the row has a score (none of them raises).
AllFieldsScore(row) ==
    HasAllFields(row) /\ \A key \in ConfiguredKeys : FieldScore(row, key).exc = "none"
\* The sum of the field scores over a set of keys, in no particular order.
RECURSIVE FieldSumOver(_, _)
FieldSumOver(keys, row) ==
    IF keys = {} THEN 0
    ELSE LET key == CHOOSE k \in keys : TRUE
         IN  FieldScore(row, key).val + FieldSumOver(keys \ {key}, row)
FieldSum(row) == FieldSumOver(ConfiguredKeys, row)

\* C1: for a record that holds every configured field, calculate_risk_score
\* returns the sum S of the per-field scores clamped to 0..100: 100 when
\* S > 100, 0 when S < 0, S otherwise.
C1_ScoreIsClampedSum ==
    ScoredRecord /\ AllFieldsScore(call.row) =>
        /\ ret.exc = "none"
        /\ ret.val \in 0..100
        /\ FieldSum(call.row) > 100 => ret.val = 100
        /\ FieldSum(call.row) < 0 => ret.val = 0
        /\ FieldSum(call.row) \in 0..100 => ret.val = FieldSum(call.row)

C1_Witness ==
    /\ ScoredRecord /\ AllFieldsScore(call.row)
    /\ Len(scoring_rules) = 2
    /\ FieldSum(call.row) > 100
    /\ ret.val = 100

\* C8: the order of the keys of the rule configuration does not change what
\* calculate_risk_score returns for a record: every reordering of the
\* configuration gives the same total (and raises when this one raises).
Reorderings(rules_cfg) ==
    {[i \in 1..Len(rules_cfg) |-> rules_cfg[p[i]]] :
        p \in Permutations(1..Len(rules_cfg))}

C8_KeyOrderIrrelevant ==
    ScoredRecord =>
        \A reordered \in Reorderings(scoring_rules) :
            LET other == calculate_risk_score(reordered, call.row)
            IN  /\ (other.exc = "none") <=> (ret.exc = "none")
                /\ ret.exc = "none" => other.val = ret.val

C8_Witness ==
    /\ ScoredRecord /\ AllFieldsScore(call.row)
    /\ Len(scoring_rules) = 2
    /\ FieldScore(call.row, scoring_rules[1].key).val
           # FieldScore(call.row, scoring_rules[2].key).val
    /\ FieldScore(call.row, scoring_rules[1].key).val > 0
    /\ FieldScore(call.row, scoring_rules[2].key).val > 0
    /\ ret.val = FieldSum(call.row)

\* The columns the configuration names, and a record cut down to them.
ConfiguredColumns == {normalized_name(key) : key \in ConfiguredKeys}
OnlyConfigured(row) == [column \in DOMAIN row \cap ConfiguredColumns |-> row[column]]
\* The field scores summed key by key, in configuration order: the rule is
\* the one stored under the key, the value the one under its normalized name.
RECURSIVE SumByKey(_, _)
SumByKey(row, i) ==
    IF i = 0 THEN 0
    ELSE SumByKey(row, i - 1)
         + calculate_field_score(scoring_rules, scoring_rules[i].key,
                                 row[normalized_name(scoring_rules[i].key)]).val

\* C22: calculate_risk_score scores the configured keys and nothing else,
\* each key once: its total is the clamped sum, over the keys, of the score
\* of the rule stored under the key for the value the record holds under the
\* key's normalized name; and a record cut down to the configured fields gets
\* the same result, so the other fields of a record never change the score.
C22_ConfiguredFieldsOnly ==
    ScoredRecord =>
        /\ AllFieldsScore(call.row) =>
               LET total == SumByKey(call.row, Len(scoring_rules))
               IN  ret = Return(IF total > 100 THEN 100
                                ELSE IF total < 0 THEN 0 ELSE total)
        /\ DOMAIN OnlyConfigured(call.row) # {} =>
               calculate_risk_score(scoring_rules, OnlyConfigured(call.row)) = ret
        /\ scoring_rules = << >> /\ DOMAIN call.row # {} => ret = Return(0)

C22_Witness ==
    /\ ScoredRecord /\ AllFieldsScore(call.row)
    /\ ConfiguredKeys = {Age, normalized_name(Age)}
    /\ DOMAIN call.row = ScoreColumns
    /\ RulesGet(scoring_rules, Age) # RulesGet(scoring_rules, normalized_name(Age))
    /\ FieldScore(call.row, Age).val = 60
    /\ FieldScore(call.row, normalized_name(Age)).val = -5
    /\ ret = Return(55)

\* ---- the analyzer and its reports (Spec) ----
Generated == call.op = "generate_risk_report" /\ ret.exc = "none"

\* A row holds a record: every field of the record, with its value.
Holds(row, record) ==
    \A column \in DOMAIN record : column \in DOMAIN row /\ row[column] = record[column]

\* The per-field scores the end-to-end example expects.
ExampleScores ==
    Age :> 0 @@ Sex :> 2 @@ Job :> 5 @@ Housing :> 5 @@ SavingAccounts :> 9
    @@ CheckingAccount :> 8 @@ CreditAmount :> 5 @@ Duration :> 5 @@ Purpose :> 5

\* The example under the rules and tiers of run.py, with `total` as the
\* score of the example record.
ExampleWithTotal(total) ==
    scoring_rules = RefRules /\ risk_levels = RefLevels =>
        /\ ScoredField /\ <<call.field, call.value>> \in ExampleFields =>
               ret = Return(ExampleScores[call.field])
        /\ ScoredRecord /\ Holds(call.row, ExampleRecord) => ret = Return(total)
        /\ Classified /\ call.score = total => ret.level = "Medium-low risk"
        /\ \A i \in 1..Len(report.rows) :
               Holds(report.rows[i], ExampleRecord) =>
                   /\ report.rows[i][risk_score] = IntV(total)
                   /\ report.rows[i][risk_level] = StrV("Medium-low risk")

\* C6 as stated: the example record's fields score 0, 2, 5, 5, 9, 8, 5, 5, 5,
\* its total is 39 and its tier is "Medium-low risk".
C6_ExampleTotal39 == ExampleWithTotal(39)

\* C6 as amended: the example record's fields score 0, 2, 5, 5, 9, 8, 5, 5, 5,
\* its total is their sum 44 and its tier is "Medium-low risk".
C6_ExampleTotal44 == ExampleWithTotal(44)

C6_Witness ==
    /\ scoring_rules = RefRules /\ risk_levels = RefLevels
    /\ Generated
    /\ \E i \in 1..Len(report.rows) :
           /\ Holds(report.rows[i], ExampleRecord)
           /\ report.rows[i][risk_score] = IntV(44)
           /\ report.rows[i][risk_level] = StrV("Medium-low risk")

\* C7: a generate_risk_report call on a table of N rows returns N rows in
\* the table's order; row i carries customer_id = i, the risk_score that
\* calculate_risk_score gives for record i of the table, and the risk_level
\* that determine_risk_level gives for that score.
ReportColumns == {customer_id, risk_score, risk_level}
C7_ReportRows ==
    [][ call'.op = "generate_risk_report" /\ ret'.exc = "none" =>
            /\ Len(report'.rows) = Len(data.rows)
            /\ \A i \in 1..Len(data.rows) :
                   LET scored == calculate_risk_score(scoring_rules, data.rows[i])
                   IN  /\ \A column \in DOMAIN data.rows[i] \ ReportColumns :
                              report'.rows[i][column] = data.rows[i][column]
                       /\ report'.rows[i][customer_id] = IntV(i)
                       /\ scored.exc = "none"
                       /\ report'.rows[i][risk_score] = IntV(scored.val)
                       /\ report'.rows[i][risk_level]
                              = StrV(determine_risk_level(risk_levels, scored.val).level)
      ]_vars

\* C9: a report generated after an earlier one equals it, and the file
\* save_risk_report writes after a report was generated holds that report.
C9_ReportRepeats ==
    [][ /\ call'.op = "generate_risk_report" /\ ret'.exc = "none"
           /\ report # NoTable => report' = report
        /\ call'.op = "save_risk_report" /\ ret'.exc = "none"
           /\ report # NoTable => csv' = to_csv(report)
      ]_vars

\* ---- the tier list (SpecLevel) ----
DistinctThresholds(levels) ==
    \A i, j \in 1..Len(levels) :
        i # j => levels[i].threshold # levels[j].threshold
StrictlyDescending(levels) ==
    \A i \in 1..(Len(levels) - 1) : levels[i].threshold > levels[i + 1].threshold

\* C19: for a tier list with pairwise distinct thresholds, supplied in any
\* order, the list the analyzer stores holds the same tiers sorted by
\* strictly descending threshold, and determine_risk_level returns for a
\* score what it returns when the list is supplied in any other order.
C19_TierOrderIrrelevant ==
    DistinctThresholds(args.risk_levels) =>
        /\ StrictlyDescending(risk_levels)
        /\ Len(risk_levels) = Len(args.risk_levels)
        /\ Range(risk_levels) = Range(args.risk_levels)
        /\ Classified =>
               \A reordered \in Reorderings(args.risk_levels) :
                   determine_risk_level(SortedDescending(reordered), call.score) = ret

C19_Witness ==
    /\ Classified
    /\ Len(args.risk_levels) = 3
    /\ args.risk_levels[1].threshold < args.risk_levels[2].threshold
    /\ args.risk_levels[2].threshold < args.risk_levels[3].threshold
    /\ call.score = 50
    /\ ret.level = args.risk_levels[2].level
    /\ ret.level # args.risk_levels[1].level

\* ---- input-shape violations (Spec) ----
\* A call failed on its assertion and produced nothing: no value, no label,
\* no report, no file, and the table is as it was before the call.
FailsLeavingAll ==
    /\ ret' = Raise("AssertionError")
    /\ data' = data /\ report' = report /\ csv' = csv

\* C14: an analyzer cannot be constructed with an empty tier list (the
\* constructor raises and the table is untouched); calculate_risk_score on
\* an empty record, determine_risk_level on a score outside 0..100 and
\* generate_risk_report on an empty table raise at once, return nothing and
\* leave the table without any new column.
C14_ShapeViolationsFail ==
    /\ [](Len(args.risk_levels) = 0 =>
              /\ call.op = "__init__" /\ ret = Raise("AssertionError")
              /\ data = args.data /\ report = NoTable /\ csv = NoFile)
    /\ [][ /\ call'.op = "calculate_risk_score" /\ DOMAIN call'.row = {} =>
                  FailsLeavingAll
           /\ call'.op = "determine_risk_level" /\ call'.score \notin 0..100 =>
                  FailsLeavingAll
           /\ call'.op = "generate_risk_report" /\ IsEmpty(data) =>
                  FailsLeavingAll
         ]_vars

C14_Witness ==
    /\ call.op = "generate_risk_report"
    /\ ret = Raise("AssertionError")
    /\ data.columns = <<age>> /\ data.rows = << >>
    /\ report = NoTable

\* ---- the sentinel label (Spec) ----
Thresholds == {risk_levels[i].threshold : i \in 1..Len(risk_levels)}
\* The cells of the reports returned and written.
ReportCells ==
    {report.rows[i][risk_level] : i \in 1..Len(report.rows)}
    \cup UNION {Range(csv.lines[i]) : i \in 1..Len(csv.lines)}

\* C16: for a score in 0..100, determine_risk_level returns "Unknown" if and
\* only if every tier's threshold is above the score; so with a tier whose
\* threshold is <= 0 no score in 0..100 is labelled "Unknown" and no report
\* or report file holds the label, and with only positive thresholds the
\* score 0 is labelled "Unknown".
C16_UnknownIffUncovered ==
    /\ Classified =>
           (ret.level = "Unknown" <=> \A t \in Thresholds : t > call.score)
    /\ (\E t \in Thresholds : t <= 0) =>
           /\ Classified => ret.level # "Unknown"
           /\ StrV("Unknown") \notin ReportCells
    /\ Classified /\ call.score = 0 /\ (\A t \in Thresholds : t > 0) =>
           ret.level = "Unknown"

C16_Witness ==
    /\ Classified /\ call.score = 0
    /\ Len(risk_levels) = 2 /\ Thresholds = {30}
    /\ ret.level = "Unknown"

\* ---- the table a report is made from (Spec) ----
\* The table the analyzer was constructed on, as the caller supplied it.
InputTable == args.data
InputColumns == Range(InputTable.columns)

\* C12: a report keeps every field of the table the analyzer was given: its
\* columns are customer_id, then the table's columns in their order, then
\* risk_score and risk_level, and every field of every record has the value
\* it had in the table.
C12_OriginalFieldsKept ==
    report # NoTable =>
        /\ report.columns
               = <<customer_id>> \o InputTable.columns \o <<risk_score, risk_level>>
        /\ Len(report.rows) = Len(InputTable.rows)
        /\ \A i \in 1..Len(InputTable.rows) :
               \A column \in InputColumns :
                   report.rows[i][column] = InputTable.rows[i][column]

\* A configured field is absent from a record, or from the table's records.
MissingIn(columns) ==
    \E key \in ConfiguredKeys : normalized_name(key) \notin columns

\* C13: when a configured field's normalized name is absent from the
\* record, calculate_risk_score raises KeyError, and generate_risk_report on
\* a table whose records lack the field raises it too and returns no report.
C13_MissingFieldRaises ==
    /\ ScoredRecord /\ DOMAIN call.row # {} /\ MissingIn(DOMAIN call.row) =>
           ret.exc = "KeyError"
    /\ call.op = "generate_risk_report" /\ ~IsEmpty(InputTable)
       /\ MissingIn(InputColumns) =>
           ret.exc = "KeyError" /\ report = NoTable

\* C17: the configuration is what it was at construction, and every call
\* returns what the same call returns on a freshly constructed analyzer.
C17_CallsArePure ==
    Exists =>
        LET tiers == SortedDescending(args.risk_levels)
            fresh == generate_risk_report(InputTable, args.scoring_rules, tiers)
        IN  /\ scoring_rules = args.scoring_rules
            /\ risk_levels = tiers
            /\ ScoredField =>
                   ret = calculate_field_score(args.scoring_rules, call.field,
                                               call.value)
            /\ ScoredRecord => ret = calculate_risk_score(args.scoring_rules, call.row)
            /\ call.op = "determine_risk_level" =>
                   ret = determine_risk_level(tiers, call.score)
            /\ call.op = "generate_risk_report" =>
                   /\ ret.exc = fresh.exc
                   /\ fresh.exc = "none" => report = fresh.report

\* What a worker computes from one record alone, and the results of the
\* workers put at their records' positions, the records taken in some order.
Worker(record) ==
    LET scored == calculate_risk_score(scoring_rules, record)
    IN  IF scored.exc # "none"
        THEN [failed |-> TRUE, score |-> NaN, level |-> NaN]
        ELSE [failed |-> FALSE, score |-> IntV(scored.val),
              level |-> StrV(determine_risk_level(risk_levels, scored.val).level)]
RECURSIVE Reassembled(_, _, _)
Reassembled(order, k, results) ==
    IF k > Len(order) THEN results
    ELSE Reassembled(order, k + 1,
                     [results EXCEPT ![order[k]] = Worker(InputTable.rows[order[k]])])
Orders(n) == {[k \in 1..n |-> p[k]] : p \in Permutations(1..n)}

\* C18: the risk_score and risk_level of a report's rows are what workers
\* compute from each record of the table on its own, in whatever order the
\* records are taken, once the results are put back at the records' positions.
C18_RowsIndependent ==
    Generated =>
        \A order \in Orders(Len(InputTable.rows)) :
            Reassembled(order, 1, [i \in 1..Len(InputTable.rows) |-> Worker(<< >>)])
                = [i \in 1..Len(report.rows) |->
                       [failed |-> FALSE, score |-> report.rows[i][risk_score],
                        level |-> report.rows[i][risk_level]]]

\* ---- the scores a report classifies (Spec) ----
\* The risk_score cells of the report returned.
ReportScores == {report.rows[i][risk_score] : i \in 1..Len(report.rows)}
\* The unclamped sum of a record's field scores.
RawTotal(row) == SumFields(scoring_rules, row, 1, 0)

\* C23: inside generate_risk_report (and save_risk_report, which calls it)
\* determine_risk_level only gets scores calculate_risk_score returned, which
\* are ints in 0..100, so its assertion never fails there: a report call
\* that raises AssertionError was made on an empty table (or, for
\* save_risk_report, with a path not ending in .csv), every other failure is
\* the one calculate_risk_score raises on a row, and every risk_score of a
\* report is in 0..100.
C23_ReportScoresInRange ==
    /\ \A score \in ReportScores : score.t = "int" /\ score.n \in 0..100
    /\ call.op = "generate_risk_report" /\ ret.exc = "AssertionError" =>
           IsEmpty(data)
    /\ call.op = "save_risk_report" /\ ret.exc = "AssertionError" =>
           IsEmpty(data) \/ ~endswith(call.path, DotCsv)
    /\ call.op \in {"generate_risk_report", "save_risk_report"}
       /\ ret.exc \notin {"none", "AssertionError"} =>
           \E i \in 1..Len(data.rows) :
               calculate_risk_score(scoring_rules, data.rows[i]) = ret

C23_Witness ==
    /\ Generated
    /\ \E i \in 1..Len(report.rows) :
           /\ Holds(report.rows[i], RiskyRecord)
           /\ RawTotal(RiskyRecord) = Return(107)
           /\ report.rows[i][risk_score] = IntV(100)
           /\ report.rows[i][risk_level] = StrV("High risk")

\* ---- a report that fails on a missing field (Spec) ----
\* A report call failed on a configured field the table does not hold.
FailedOnMissingField ==
    /\ call.op \in {"generate_risk_report", "save_risk_report"}
    /\ ret.exc = "KeyError"
\* The table as supplied, with customer_id = 1, 2, ... written into it.
InputWithId ==
    SetColumn(InputTable, customer_id,
              IndexPlusOne(InputTable.index, Len(InputTable.index)))

\* C24: when a report call fails because a configured field is absent from
\* the table, the table is left as supplied except for the customer_id
\* column, which holds the row positions 1, 2, ...: the write of line 118 is
\* not undone, no risk_score or risk_level column has been written (the
\* table has one only if it was supplied with it), and no report is returned.
C24_PartialWriteOnFailure ==
    FailedOnMissingField =>
        /\ MissingIn(Range(data.columns))
        /\ data = InputWithId
        /\ customer_id \in Range(data.columns)
        /\ \A i \in 1..Len(data.rows) : data.rows[i][customer_id] = IntV(i)
        /\ \A column \in {risk_score, risk_level} :
               column \notin InputColumns => column \notin Range(data.columns)
        /\ report = NoTable /\ csv = NoFile

C24_Witness ==
    /\ call.op = "generate_risk_report" /\ ret.exc = "KeyError"
    /\ InputTable.columns = <<age>> /\ Len(InputTable.rows) = 2
    /\ data.columns = <<age, customer_id>>
    /\ data.rows[2][customer_id] = IntV(2)
    /\ data # InputTable

\* ---- the Sex field in the pipeline of run.py (SpecPipeline) ----
\* The rule configuration without the rule stored under a key.
RulesWithout(rules_cfg, key) == SelectSeq(rules_cfg, LAMBDA r : r.key # key)
\* The sex values of the raw file, row by row.
RawSex == [i \in 1..Len(args.raw.table.rows) |-> args.raw.table.rows[i][Sex]]
\* The pipeline has encoded the table.
Encoded ==
    \/ Returned("encode_categorical_values")
    \/ call.op \in {"get_processed_data", "DataAnalyzer", "generate_risk_report",
                     "save_risk_report"}

\* C25: in the pipeline of run.py the encoder leaves -1, 0, 1 or a missing
\* value in the sex column, none of which is a key of the Sex rule
\* ('male', 'female', 'unknown'), so the Sex field scores 0 for every record:
\* each risk_score of the report is the score of the record under the
\* configuration without the Sex rule, whatever the sex in the raw file.
C25_SexScoresZero ==
    /\ Encoded =>
           \A i \in 1..Len(processor.data.df.rows) :
               LET encoded == processor.data.df.rows[i][sex]
               IN  /\ encoded \in {IntV(-1), IntV(0), IntV(1), NaN}
                   /\ calculate_field_score(RefRules, Sex, encoded) = Return(0)
    /\ \A i \in 1..Len(report.rows) :
           /\ calculate_field_score(scoring_rules, Sex, report.rows[i][sex])
                  = Return(0)
           /\ report.rows[i][risk_score]
                  = IntV(calculate_risk_score(RulesWithout(scoring_rules, Sex),
                                              report.rows[i]).val)

C25_Witness ==
    /\ Generated /\ scoring_rules = RefRules
    /\ Len(report.rows) = 2
    /\ RawSex[1] = StrV("male") /\ report.rows[1][sex] = IntV(1)
    /\ report.rows[1][risk_score] = IntV(42)
    /\ RawSex[2] = StrV("female") /\ report.rows[2][sex] = IntV(0)

\* ---- the two analyzers (SpecBoth) ----
\* The record is in the domain the analyzers are compared on.
InDomain(row) ==
    /\ row[age].t = "int" /\ row[credit_amount].t = "int"
    /\ row[duration].t = "int" /\ row[purpose].t = "str"
    /\ row[sex] \in Sexes
    /\ row[job] \in {IntV(n) : n \in 0..3}
    /\ row[housing] \in {IntV(n) : n \in 0..2}
    /\ row[saving_accounts] \in {IntV(n) : n \in 0..4}
    /\ row[checking_account] \in {IntV(n) : n \in 0..3}

\* C26: for a record with job in 0..3, housing in 0..2, saving_accounts in
\* 0..4, checking_account in 0..3, int age, credit_amount and duration and
\* any purpose, the hard-coded analyzer (sex as 1 / 0) and the configurable
\* analyzer under the rules of run.py (sex as 'male' / 'female') return the
\* same risk score, and for every score in 0..100 the same risk level.
C26_AnalyzersAgree ==
    /\ ScoredRecord /\ InDomain(call.row) =>
           /\ ret.exc = "none"
           /\ german_calculate_risk_score(SexEncoded(call.row)) = ret
    /\ call.op = "german.calculate_risk_score" /\ InDomain(args.row) =>
           /\ ret.exc = "none"
           /\ calculate_risk_score(RefRules, args.row) = ret
    /\ Classified => german_determine_risk_level(call.score) = ret
    /\ call.op = "german.determine_risk_level" /\ call.score \in 0..100 =>
           determine_risk_level(SortedDescending(RefLevels), call.score) = ret

C26_Witness ==
    /\ call.op = "german.calculate_risk_score" /\ InDomain(args.row)
    /\ args.row[sex] = StrV("male") /\ call.row[sex] = IntV(1)
    /\ args.row[age] = IntV(61)
    /\ ret = Return(54)
    /\ calculate_risk_score(RefRules, args.row) = Return(54)

\* ---- cleaning (SpecProcessor) ----
\* The column lists a clean_data call works with, as sets of column names.
ListedCategorical ==
    IF processor.variant = "german" THEN Range(GermanCategorical)
    ELSE {normalized_name(col) : col \in Range(args.categorical_cols)}
ListedNumerical ==
    IF processor.variant = "german" THEN Range(GermanNumerical)
    ELSE {normalized_name(col) : col \in Range(args.numerical_cols)}

\* A cell holds a number: an int, or text that reads as one.
IsNumber(value) ==
    value.t \in {"int", "half"}
    \/ (value.t = "str" /\ value.s \in {"7", "30"})
NumberOf(value) ==
    IF value = StrV("7") THEN IntV(7)
    ELSE IF value = StrV("30") THEN IntV(30) ELSE value

\* The ints of a column in ascending order, and their median: the middle
\* one, or the mean of the two middle ones.
SortedNumbers(df, col) ==
    LET numbers == SelectSeq([i \in 1..Len(df.rows) |-> NumberOf(df.rows[i][col])],
                             LAMBDA v : v.t = "int")
    IN  CHOOSE sorted \in {[i \in 1..Len(numbers) |-> numbers[order[i]].n] :
                              order \in Permutations(1..Len(numbers))} :
            \A i \in 1..(Len(sorted) - 1) : sorted[i] <= sorted[i + 1]
MedianOf(df, col) ==
    LET sorted == SortedNumbers(df, col)
        count == Len(sorted)
        twice == IF count % 2 = 1 THEN 2 * sorted[(count + 1) \div 2]
                 ELSE sorted[count \div 2] + sorted[count \div 2 + 1]
    IN  IF twice % 2 = 0 THEN IntV(twice \div 2) ELSE HalfV(twice)

\* What a clean_data call that returns has made of a table.
CleanedFrom(before, after) ==
    /\ after.columns = before.columns /\ Len(after.rows) = Len(before.rows)
    /\ \A col \in Range(before.columns), i \in 1..Len(before.rows) :
           LET was == before.rows[i][col]
               is == after.rows[i][col]
           IN  /\ col \in ListedCategorical \cup ListedNumerical => is # NaN
               /\ col \in ListedNumerical =>
                      is = IF IsNumber(was) THEN NumberOf(was)
                           ELSE MedianOf(before, col)
               /\ col \in ListedCategorical \ ListedNumerical =>
                      is = IF was = NaN THEN StrV("unknown") ELSE was
               /\ col \notin ListedCategorical \cup ListedNumerical => is = was

\* A listed numerical column of the table has cells and no number in them.
NothingToFillWith(df) ==
    /\ Len(df.rows) > 0
    /\ \E col \in ListedNumerical \cap Range(df.columns) :
           \A i \in 1..Len(df.rows) : ~IsNumber(df.rows[i][col])

\* C27: a clean_data call on a loaded table that returns leaves no missing
\* value in a listed column the table has: a missing value of a categorical
\* column has become "unknown", a missing or non-numeric value of a
\* numerical column has become the median of the column's numbers, numbers
\* and non-missing categorical values are what they were (a number read as
\* text is that number), and the other columns are untouched; when a
\* numerical column has no number to take a median of, the call raises
\* AssertionError instead of returning.  (A column listed as both is treated
\* as numerical.)
C27_CleanLeavesNoMissing ==
    [][ call'.op = "clean_data" /\ processor.data.kind = "DataFrame" =>
            /\ processor'.data.kind = "DataFrame"
            /\ ret'.exc = "none" =>
                   CleanedFrom(processor.data.df, processor'.data.df)
            /\ ret'.exc # "none" <=> NothingToFillWith(processor.data.df)
            /\ ret'.exc \in {"none", "AssertionError"}
      ]_vars

C27_Witness ==
    /\ Returned("clean_data") /\ processor.variant = "pygroupf"
    /\ Len(args.raw.table.rows) = 3
    /\ Column(args.raw.table, Age) = <<IntV(20), IntV(25), NaN>>
    /\ Column(args.raw.table, Sex) = <<StrV("male"), NaN, StrV("other")>>
    /\ processor.data.kind = "DataFrame"
    /\ Column(processor.data.df, age) = <<IntV(20), IntV(25), HalfV(45)>>
    /\ Column(processor.data.df, sex)
           = <<StrV("male"), StrV("unknown"), StrV("other")>>

\* The mapping an encode_categorical_values call works with, and the value
\* map it has for a column: that of the last key that normalizes to the
\* column's name.
MappingInEffect ==
    IF processor.variant = "german" THEN GermanMapping ELSE args.column_mapping
NamedBy(col) ==
    {i \in 1..Len(MappingInEffect) :
        normalized_name(MappingInEffect[i].key) = col}
ValueMapOf(col) == MappingInEffect[Greatest(NamedBy(col))].map

\* What an encode_categorical_values call has made of a table.
EncodedFrom(before, after) ==
    /\ after.columns = before.columns /\ Len(after.rows) = Len(before.rows)
    /\ \A col \in Range(before.columns), i \in 1..Len(before.rows) :
           LET was == before.rows[i][col]
               is == after.rows[i][col]
           IN  IF NamedBy(col) = {} THEN is = was
               ELSE IF was \in DOMAIN ValueMapOf(col)
                    THEN is = IntV(ValueMapOf(col)[was])
                    ELSE is = NaN

\* C28: an encode_categorical_values call on a loaded table returns, and has
\* replaced each value of a column that a key of the mapping names after
\* normalization by its image under that column's value map when the value
\* is a key of it and by a missing value when it is not; every other column
\* is what it was.
C28_EncodeMapsOrBlanks ==
    [][ call'.op = "encode_categorical_values"
        /\ processor.data.kind = "DataFrame" =>
            /\ ret'.exc = "none"
            /\ processor'.data.kind = "DataFrame"
            /\ EncodedFrom(processor.data.df, processor'.data.df)
      ]_vars

\* A table that clean_data left without a missing value (the missing age
\* filled with the median 20) has a missing sex after encoding: "other" is
\* no key of the sex mapping.
C28_Witness ==
    /\ Returned("encode_categorical_values") /\ processor.variant = "pygroupf"
    /\ args.column_mapping = <<Mapping(Sex, SexMapping)>>
    /\ Column(args.raw.table, Age) = <<IntV(20), NaN>>
    /\ Column(args.raw.table, Sex) = <<StrV("male"), StrV("other")>>
    /\ processor.data.kind = "DataFrame"
    /\ Column(processor.data.df, age) = <<IntV(20), IntV(20)>>
    /\ Column(processor.data.df, sex) = <<IntV(1), NaN>>

\* load_data has succeeded on the processor: only a load_data call stores a
\* DataFrame, it raises when the table is empty, and no other call changes
\* the shape of the table.
Loaded == processor.data.kind = "DataFrame" /\ ~IsEmpty(processor.data.df)

GuardedCalls == {"clean_data", "encode_categorical_values", "get_processed_data"}

\* C29: a clean_data, encode_categorical_values or get_processed_data call
\* on a processor on which load_data has not succeeded raises ValueError,
\* writes no file and leaves the processor as it was; on a processor on which
\* load_data has succeeded such a call does not raise ValueError.
C29_ValueErrorUntilLoaded ==
    [][ call'.op \in GuardedCalls =>
            IF Loaded
            THEN ret'.exc # "ValueError"
            ELSE ret' = Raise("ValueError") /\ UNCHANGED <<processor, files>>
      ]_vars

\* A processor on which clean_data is never called: the other three methods
\* in any order.
NextUncleaned ==
    \/ LoadData
    \/ EncodeCategoricalValues(args.column_mapping)
    \/ GetProcessedData
SpecUncleaned == InitProcessor /\ [][NextUncleaned]_vars

\* C30: on a processor on which clean_data has not been called, a
\* get_processed_data call raises ValueError, and processed_credit_data.csv
\* is never written; in particular after load_data alone.
C30_NoDataBeforeClean ==
    /\ files.processed = NoFile
    /\ call.op = "get_processed_data" => ret = Raise("ValueError")

====
